---------------------------- MODULE Spec2Model ----------------------------
(***************************************************************************)
(* Model of the credit-report parser in src/process_credit_report.py.     *)
(*                                                                         *)
(* Text is modelled at the character level: a Python str is a sequence of  *)
(* one-character strings, '' is <<>>.  The regular expressions of the      *)
(* source are operators over such sequences.  A Python dict is a function  *)
(* whose domain is the set of keys present.                                *)
(***************************************************************************)
EXTENDS Integers, Sequences, FiniteSets, TLC

VARIABLES
    cv_value,    \* clean_value: the argument of the first call
    cv_first,    \* clean_value(cv_value), once computed
    cv_second,   \* clean_value(cv_first), once computed
    cv_calls,    \* number of clean_value calls made so far

    account_text,         \* parse_account: its argument, a sequence of lines
    pc,                   \* parse_account: the statement reached
    account_data,         \* the account record being built
    history_start_index,  \* index (from 0) of the header line, -1 if none
    scan_i,               \* index (from 0) of the next history line to scan
    current_bureau,       \* bureau whose block is being read, "None" if none
    temp_months,          \* temp_extracted_months_per_bureau
    temp_statuses,        \* temp_extracted_statuses_per_bureau
    fin_bureau,           \* index of the next bureau to finalize

    value_line,       \* the three parsers on one line: the line
    agency_line,      \* the creditor / agency line above it
    parsed,           \* the parsers that have run
    section_account,  \* what parse_account returned
    collection_data,  \* what parse_collection returned
    summary,          \* credit_report["summary"]

    document,     \* process: what the two PDF libraries do with the file
    step,         \* process: the statement reached
    pdf_text,     \* the text extract_lines_from_pdf returned, None if none
    page,         \* the page object it returned, "None" if none
    extracted,    \* the extraction steps of parse_credit_report that ran
    written,      \* the output files written
    result,       \* how process ended: "True", "False" or the exception
    caller,       \* the entry point that was invoked
    response,     \* what that entry point gave its caller, "None" before

    page_words,     \* parse_credit_report: page.extract_words()
    report_doc,     \* what the anchor patterns find in the text
    credit_report,  \* self.credit_report
    rstep,          \* parse_credit_report: the call reached
    raised,         \* the exception that ended it, "None" if none

    kblock,        \* the clustering: the block of words being clustered
    kmeans_words,  \* the clustering: the words given to KMeans
    kmeans,        \* the fitted KMeans: labels_ and cluster_centers_
    word_bureau,   \* the bureau of each word
    kstep,         \* the clustering: the statement reached

    doc_lines,          \* the section finders: the lines of the text
    dstep,              \* the section finders: the call reached
    inquiries_section,  \* extract_inquiries: the body it found, None if none
    public_section,     \* extract_public_information: the body, None if none
    creditor_indices,   \* identify_account_sections: the anchor lines found
    account_sections,   \* identify_account_sections: the sections returned

    handle,      \* extract_lines_from_pdf: the state of each with-handle
    pages_read   \* the pages whose text the running loop has extracted

cleanVars == <<cv_value, cv_first, cv_second, cv_calls>>
accountVars == <<account_text, pc, account_data, history_start_index, scan_i,
                 current_bureau, temp_months, temp_statuses, fin_bureau>>
fanoutVars == <<value_line, agency_line, parsed, section_account,
                collection_data, summary>>
processVars == <<document, step, pdf_text, page, extracted, written, result,
                 caller, response>>
reportVars == <<page_words, report_doc, credit_report, rstep, raised>>
clusterVars == <<kblock, kmeans_words, kmeans, word_bureau, kstep>>
docVars == <<doc_lines, dstep, inquiries_section, public_section,
             creditor_indices, account_sections>>
handleVars == <<handle, pages_read>>
vars == <<cleanVars, accountVars, fanoutVars, processVars, reportVars,
          clusterVars, docVars, handleVars>>

\* what the steps of one function leave alone
notClean == <<accountVars, fanoutVars, processVars, reportVars,
              clusterVars, docVars, handleVars>>
notAccount == <<cleanVars, fanoutVars, processVars, reportVars,
                clusterVars, docVars, handleVars>>
notFanout == <<cleanVars, accountVars, processVars, reportVars,
               clusterVars, docVars, handleVars>>
notProcess == <<cleanVars, accountVars, fanoutVars, reportVars,
                clusterVars, docVars, handleVars>>
notReport == <<cleanVars, accountVars, fanoutVars, processVars, clusterVars,
               docVars, handleVars>>
notCluster == <<cleanVars, accountVars, fanoutVars, processVars, reportVars,
               docVars, handleVars>>
notDoc == <<cleanVars, accountVars, fanoutVars, processVars, clusterVars,
           handleVars>>
---------------------------------------------------------------------------
(* Characters and strings                                                  *)

Digits == <<"0","1","2","3","4","5","6","7","8","9">>
LowerCase == <<"a","b","c","d","e","f","g","h","i","j","k","l","m",
               "n","o","p","q","r","s","t","u","v","w","x","y","z">>
UpperCase == <<"A","B","C","D","E","F","G","H","I","J","K","L","M",
               "N","O","P","Q","R","S","T","U","V","W","X","Y","Z">>

IsDigit(c) == \E i \in 1..10 : Digits[i] = c
IsAlpha(c) == \E i \in 1..26 : LowerCase[i] = c \/ UpperCase[i] = c
IsSpace(c) == c \in {" ", "\t", "\n"}
DigitVal(c) == (CHOOSE i \in 1..10 : Digits[i] = c) - 1

AllDigits(s) == \A i \in 1..Len(s) : IsDigit(s[i])

\* int(s) for a string of decimal digits
RECURSIVE ToInt(_)
ToInt(s) ==
    IF s = <<>> THEN 0
    ELSE 10 * ToInt(SubSeq(s, 1, Len(s) - 1)) + DigitVal(s[Len(s)])

\* str(n) for n >= 0
RECURSIVE ToStr(_)
ToStr(n) ==
    IF n < 10 THEN <<Digits[n + 1]>>
    ELSE ToStr(n \div 10) \o <<Digits[(n % 10) + 1]>>

\* '%02d' % n
Pad2(n) == IF n < 10 THEN <<"0">> \o ToStr(n) ELSE ToStr(n)

\* s.replace(c, '') for a one-character c
Remove(s, c) == SelectSeq(s, LAMBDA x : x # c)

\* s.split(c) for a one-character separator c
RECURSIVE SplitOn(_, _)
SplitOn(s, c) ==
    IF \A i \in 1..Len(s) : s[i] # c THEN <<s>>
    ELSE LET i == CHOOSE j \in 1..Len(s) :
                      s[j] = c /\ \A k \in 1..(j - 1) : s[k] # c
         IN  <<SubSeq(s, 1, i - 1)>> \o SplitOn(SubSeq(s, i + 1, Len(s)), c)

---------------------------------------------------------------------------
(* clean_value                                                             *)

IsLeap(y) == (y % 4 = 0 /\ y % 100 # 0) \/ y % 400 = 0
DaysIn(m, y) ==
    IF m = 2 THEN (IF IsLeap(y) THEN 29 ELSE 28)
    ELSE IF m \in {4, 6, 9, 11} THEN 30 ELSE 31

\* datetime(y, m, d) exists; strptime raises ValueError otherwise
ValidDate(y, m, d) ==
    y \in 1..9999 /\ m \in 1..12 /\ d >= 1 /\ d <= DaysIn(m, y)

\* date_obj.strftime('%m/%d/%Y')
FormatDate(y, m, d) == Pad2(m) \o <<"/">> \o Pad2(d) \o <<"/">> \o ToStr(y)

\* re.match(r'^\d{1,2}/\d{1,2}/\d{N}$', value), N = ylen
SlashDateShape(value, ylen) ==
    LET p == SplitOn(value, "/")
    IN  /\ Len(p) = 3
        /\ Len(p[1]) \in 1..2 /\ AllDigits(p[1])
        /\ Len(p[2]) \in 1..2 /\ AllDigits(p[2])
        /\ Len(p[3]) = ylen /\ AllDigits(p[3])

\* strptime's %y: 69..99 are 19xx, 00..68 are 20xx
TwoDigitYear(yy) == IF yy >= 69 THEN 1900 + yy ELSE 2000 + yy

MonthNames == <<
    <<"J","a","n","u","a","r","y">>, <<"F","e","b","r","u","a","r","y">>,
    <<"M","a","r","c","h">>, <<"A","p","r","i","l">>, <<"M","a","y">>,
    <<"J","u","n","e">>, <<"J","u","l","y">>, <<"A","u","g","u","s","t">>,
    <<"S","e","p","t","e","m","b","e","r">>, <<"O","c","t","o","b","e","r">>,
    <<"N","o","v","e","m","b","e","r">>, <<"D","e","c","e","m","b","e","r">> >>

ToLowerChar(c) ==
    IF \E i \in 1..26 : UpperCase[i] = c
    THEN LowerCase[CHOOSE i \in 1..26 : UpperCase[i] = c]
    ELSE c
Lower(s) == [i \in 1..Len(s) |-> ToLowerChar(s[i])]

ToUpperChar(c) ==
    IF \E i \in 1..26 : LowerCase[i] = c
    THEN UpperCase[CHOOSE i \in 1..26 : LowerCase[i] = c]
    ELSE c
Upper(s) == [i \in 1..Len(s) |-> ToUpperChar(s[i])]

\* The splits of value that re.match(r'^[A-Za-z]+\s+\d{1,2},\s*\d{4}$', value)
\* admits: <<a, b, c>> with value[1..a] the letters, value[a+1..b] the
\* whitespace, value[b+1..c] the day digits, value[c+1] the comma, then
\* whitespace and the last four characters the year.
MonthNameSplits(value) ==
    LET n == Len(value)
    IN  { t \in (1..n) \X (1..n) \X (1..n) :
            /\ t[1] < t[2] /\ t[2] < t[3] /\ t[3] - t[2] \in 1..2
            /\ t[3] + 1 <= n - 4
            /\ \A i \in 1..t[1] : IsAlpha(value[i])
            /\ \A i \in (t[1] + 1)..t[2] : IsSpace(value[i])
            /\ \A i \in (t[2] + 1)..t[3] : IsDigit(value[i])
            /\ value[t[3] + 1] = ","
            /\ \A i \in (t[3] + 2)..(n - 4) : IsSpace(value[i])
            /\ \A i \in (n - 3)..n : IsDigit(value[i]) }

MonthNameShape(value) == MonthNameSplits(value) # {}

\* datetime.strptime(value, '%B %d, %Y') succeeds: a full month name (any
\* case), the day, a comma followed by whitespace, the year
MonthNameParses(value) ==
    /\ MonthNameShape(value)
    /\ LET t == CHOOSE u \in MonthNameSplits(value) : TRUE
           n == Len(value)
       IN  /\ \E m \in 1..12 : Lower(MonthNames[m]) = Lower(SubSeq(value, 1, t[1]))
           /\ t[3] + 2 <= n - 4
           /\ ValidDate(ToInt(SubSeq(value, n - 3, n)),
                        CHOOSE m \in 1..12 :
                            Lower(MonthNames[m]) = Lower(SubSeq(value, 1, t[1])),
                        ToInt(SubSeq(value, t[2] + 1, t[3])))

MonthNameDate(value) ==
    LET t == CHOOSE u \in MonthNameSplits(value) : TRUE
        n == Len(value)
    IN  FormatDate(ToInt(SubSeq(value, n - 3, n)),
                   CHOOSE m \in 1..12 :
                       Lower(MonthNames[m]) = Lower(SubSeq(value, 1, t[1])),
                   ToInt(SubSeq(value, t[2] + 1, t[3])))

\* value with '$' and ',' removed (line 1023)
StripCurrency(value) == Remove(Remove(value, "$"), ",")

\* the date_patterns loop (lines 1026-1040) on the stripped value
StandardizeDate(value) ==
    LET p == SplitOn(value, "/")
    IN  IF /\ SlashDateShape(value, 4)
           /\ ValidDate(ToInt(p[3]), ToInt(p[1]), ToInt(p[2]))
        THEN FormatDate(ToInt(p[3]), ToInt(p[1]), ToInt(p[2]))
        ELSE IF /\ SlashDateShape(value, 2)
                /\ ValidDate(TwoDigitYear(ToInt(p[3])), ToInt(p[1]), ToInt(p[2]))
        THEN FormatDate(TwoDigitYear(ToInt(p[3])), ToInt(p[1]), ToInt(p[2]))
        ELSE IF MonthNameParses(value)
        THEN MonthNameDate(value)
        ELSE value

clean_value(value) ==
    IF value = <<>> \/ value = <<"-","-">> \/ value = <<"N","/","A">>
    THEN <<>>
    ELSE StandardizeDate(StripCurrency(value))

---------------------------------------------------------------------------
(* Searching and splitting                                                  *)

\* s[i..] starts with sub
MatchesAt(sub, s, i) ==
    /\ i >= 1
    /\ i + Len(sub) - 1 <= Len(s)
    /\ \A k \in 1..Len(sub) : s[i + k - 1] = sub[k]

\* sub in s
Contains(sub, s) == \E i \in 1..Len(s) : MatchesAt(sub, s, i)

\* index of the first occurrence of sub in s, 0 if there is none
Find(sub, s) ==
    IF Contains(sub, s)
    THEN CHOOSE i \in 1..Len(s) :
             MatchesAt(sub, s, i) /\ \A j \in 1..(i - 1) : ~MatchesAt(sub, s, j)
    ELSE 0

RECURSIVE LStrip(_)
LStrip(s) == IF s # <<>> /\ IsSpace(s[1]) THEN LStrip(Tail(s)) ELSE s

RECURSIVE RStrip(_)
RStrip(s) ==
    IF s # <<>> /\ IsSpace(s[Len(s)]) THEN RStrip(SubSeq(s, 1, Len(s) - 1)) ELSE s

\* s.strip()
Strip(s) == LStrip(RStrip(s))

\* the k-th smallest element of a finite set of integers
Nth(S, k) == CHOOSE x \in S : Cardinality({ y \in S : y < x }) = k - 1

\* s.split(): the maximal runs of non-whitespace characters
Words(s) ==
    LET starts == { i \in 1..Len(s) :
                      ~IsSpace(s[i]) /\ (i = 1 \/ IsSpace(s[i - 1])) }
        ends == { i \in 1..Len(s) :
                    ~IsSpace(s[i]) /\ (i = Len(s) \/ IsSpace(s[i + 1])) }
    IN  [k \in 1..Cardinality(starts) |-> SubSeq(s, Nth(starts, k), Nth(ends, k))]

\* sep.join(parts)
RECURSIVE Join(_, _)
Join(sep, parts) ==
    IF parts = <<>> THEN <<>>
    ELSE IF Len(parts) = 1 THEN parts[1]
    ELSE parts[1] \o sep \o Join(sep, Tail(parts))

Range(f) == { f[x] : x \in DOMAIN f }

\* all sequences over S of length at most n
RECURSIVE SeqsUpTo(_, _)
SeqsUpTo(S, n) ==
    IF n = 0 THEN {<<>>}
    ELSE LET shorter == SeqsUpTo(S, n - 1)
         IN  shorter \cup { Append(s, x) : s \in shorter, x \in S }

---------------------------------------------------------------------------
(* Lines of text.  A line is named by its text and Chars gives its        *)
(* characters; account texts are sequences of lines (the text is their    *)
(* join with '\n').                                                        *)

CreditorLine == "ACME BANK"

FieldLines == <<
    "Balance Owed: 100 200 300",
    "Balance Owed: $1,200",
    "Balance Owed: 100 200",
    "Balance Owed: 1 2 3 4",
    "Balance Owed:",
    "Date Opened: 03/5/24 3/5/2024 --",
    "Account # 4401",
    "",
    "7 8 9",
    "FINANCIAL SERVICES" >>

HistoryLines == <<
    "Two-Year Payment History",
    "TransUnion",
    "Experian",
    "Equifax",
    "NONE REPORTED",
    "Jan Feb '24 OK 30",
    "Jan Feb Mar Apr May Jun Jul Aug Sep Oct Nov Dec Jan Feb Mar Apr May Jun Jul Aug Sep Oct Nov Dec '25 OK OK OK OK OK OK OK OK OK OK OK OK OK OK OK OK OK OK OK OK 30 60 90 120 CO NO DATA",
    "Days Late",
    "Experian: none reported" >>

\* lines holding a label and one or three values
ValueLines == <<
    "Balance Owed: 100 200 300",
    "Balance Owed: $100 $200 $300",
    "Balance Owed: 100",
    "Balance Owed: $1,200",
    "Last Payment: 100 200 300",
    "Last Payment: $100 $200 $300",
    "Last Payment: 100",
    "Last Payment: $1,200",
    "Account # 100 200 300",
    "Account # $100 $200 $300",
    "Account # 100",
    "Account # $1,200",
    "Open Accounts: 100 200 300",
    "Open Accounts: $100 $200 $300",
    "Open Accounts: 100",
    "Open Accounts: $1,200",
    "Balances: 100 200 300",
    "Balances: $100 $200 $300",
    "Balances: 100",
    "Balances: $1,200",
    "Date Opened: 100 200 300",
    "Date Opened: $100 $200 $300",
    "Date Opened: 100",
    "Date Opened: $1,200",
    "Date Opened: 03/5/24",
    "Last Payment: 1/2/2020 3/4/2021 5/6/2022",
    "Balances: $1,200 $300 $50",
    "Inquiries (2 years): 1 2 3",
    "Inquiries: 4 5 6",
    "Credit Utilization: 10% 20% 30%",
    "Total Accounts 7 8 9" >>

\* the line naming the creditor or the collection agency
AgencyLines == <<
    "ACME BANK",
    "Acme Bank" >>

\* lines that may follow the header of a payment-history block
BlockLines == <<
    "TransUnion",
    "Experian",
    "NONE REPORTED",
    "Jan Feb '24 OK 30",
    "Jan Feb Mar Apr May Jun Jul Aug Sep Oct Nov Dec Jan Feb Mar Apr May Jun Jul Aug Sep Oct Nov Dec '25 OK OK OK OK OK OK OK OK OK OK OK OK OK OK OK OK OK OK OK OK 30 60 90 120 CO NO DATA",
    "Days Late",
    "Account Description",
    "OK NO 30",
    "OK NODATA NO  DATA NO\tDATA" >>

\* lines of a text with an inquiries and a public-information section
BodyLines == <<
    "Inquiries Creditor Name",
    "Inquiries",
    "ACME 1/2/2020 TransUnion",
    "Accounts",
    "Page 1 of 2",
    "Public Information",
    "End of Report" >>

\* lines of a text with account listings
ListingLines == <<
    "ACME BANK",
    "Account # 4401",
    "Balance Owed: 100 200 300",
    "Date Opened: 03/5/24 3/5/2024 --",
    "Page 1 of 2",
    "Creditor Contacts",
    "ACCOUNT SUMMARY",
    "ZETA LOANS",
    "High Balance: $500" >>

Chars(line) ==
    CASE line = "ACME BANK" ->
           <<"A","C","M","E"," ","B","A","N","K">>
      [] line = "Balance Owed: 100 200 300" ->
           <<"B","a","l","a","n","c","e"," ","O","w","e","d",":"," ","1",
             "0","0"," ","2","0","0"," ","3","0","0">>
      [] line = "Balance Owed: $1,200" ->
           <<"B","a","l","a","n","c","e"," ","O","w","e","d",":"," ","$",
             "1",",","2","0","0">>
      [] line = "Balance Owed: 100 200" ->
           <<"B","a","l","a","n","c","e"," ","O","w","e","d",":"," ","1",
             "0","0"," ","2","0","0">>
      [] line = "Balance Owed: 1 2 3 4" ->
           <<"B","a","l","a","n","c","e"," ","O","w","e","d",":"," ","1",
             " ","2"," ","3"," ","4">>
      [] line = "Balance Owed:" ->
           <<"B","a","l","a","n","c","e"," ","O","w","e","d",":">>
      [] line = "Date Opened: 03/5/24 3/5/2024 --" ->
           <<"D","a","t","e"," ","O","p","e","n","e","d",":"," ","0","3",
             "/","5","/","2","4"," ","3","/","5","/","2","0","2","4"," ",
             "-","-">>
      [] line = "Account # 4401" ->
           <<"A","c","c","o","u","n","t"," ","#"," ","4","4","0","1">>
      [] line = "" ->
           <<>>
      [] line = "7 8 9" ->
           <<"7"," ","8"," ","9">>
      [] line = "FINANCIAL SERVICES" ->
           <<"F","I","N","A","N","C","I","A","L"," ","S","E","R","V","I",
             "C","E","S">>
      [] line = "Two-Year Payment History" ->
           <<"T","w","o","-","Y","e","a","r"," ","P","a","y","m","e","n",
             "t"," ","H","i","s","t","o","r","y">>
      [] line = "TransUnion" ->
           <<"T","r","a","n","s","U","n","i","o","n">>
      [] line = "Experian" ->
           <<"E","x","p","e","r","i","a","n">>
      [] line = "Equifax" ->
           <<"E","q","u","i","f","a","x">>
      [] line = "NONE REPORTED" ->
           <<"N","O","N","E"," ","R","E","P","O","R","T","E","D">>
      [] line = "Jan Feb '24 OK 30" ->
           <<"J","a","n"," ","F","e","b"," ","'","2","4"," ","O","K"," ",
             "3","0">>
      [] line = "Jan Feb Mar Apr May Jun Jul Aug Sep Oct Nov Dec Jan Feb Mar Apr May Jun Jul Aug Sep Oct Nov Dec '25 OK OK OK OK OK OK OK OK OK OK OK OK OK OK OK OK OK OK OK OK 30 60 90 120 CO NO DATA" ->
           <<"J","a","n"," ","F","e","b"," ","M","a","r"," ","A","p","r",
             " ","M","a","y"," ","J","u","n"," ","J","u","l"," ","A","u",
             "g"," ","S","e","p"," ","O","c","t"," ","N","o","v"," ","D",
             "e","c"," ","J","a","n"," ","F","e","b"," ","M","a","r"," ",
             "A","p","r"," ","M","a","y"," ","J","u","n"," ","J","u","l",
             " ","A","u","g"," ","S","e","p"," ","O","c","t"," ","N","o",
             "v"," ","D","e","c"," ","'","2","5"," ","O","K"," ","O","K",
             " ","O","K"," ","O","K"," ","O","K"," ","O","K"," ","O","K",
             " ","O","K"," ","O","K"," ","O","K"," ","O","K"," ","O","K",
             " ","O","K"," ","O","K"," ","O","K"," ","O","K"," ","O","K",
             " ","O","K"," ","O","K"," ","O","K"," ","3","0"," ","6","0",
             " ","9","0"," ","1","2","0"," ","C","O"," ","N","O"," ","D",
             "A","T","A">>
      [] line = "Days Late" ->
           <<"D","a","y","s"," ","L","a","t","e">>
      [] line = "Experian: none reported" ->
           <<"E","x","p","e","r","i","a","n",":"," ","n","o","n","e"," ",
             "r","e","p","o","r","t","e","d">>
      [] line = "Balance Owed: $100 $200 $300" ->
           <<"B","a","l","a","n","c","e"," ","O","w","e","d",":"," ","$",
             "1","0","0"," ","$","2","0","0"," ","$","3","0","0">>
      [] line = "Balance Owed: 100" ->
           <<"B","a","l","a","n","c","e"," ","O","w","e","d",":"," ","1",
             "0","0">>
      [] line = "Last Payment: 100 200 300" ->
           <<"L","a","s","t"," ","P","a","y","m","e","n","t",":"," ","1",
             "0","0"," ","2","0","0"," ","3","0","0">>
      [] line = "Last Payment: $100 $200 $300" ->
           <<"L","a","s","t"," ","P","a","y","m","e","n","t",":"," ","$",
             "1","0","0"," ","$","2","0","0"," ","$","3","0","0">>
      [] line = "Last Payment: 100" ->
           <<"L","a","s","t"," ","P","a","y","m","e","n","t",":"," ","1",
             "0","0">>
      [] line = "Last Payment: $1,200" ->
           <<"L","a","s","t"," ","P","a","y","m","e","n","t",":"," ","$",
             "1",",","2","0","0">>
      [] line = "Account # 100 200 300" ->
           <<"A","c","c","o","u","n","t"," ","#"," ","1","0","0"," ","2",
             "0","0"," ","3","0","0">>
      [] line = "Account # $100 $200 $300" ->
           <<"A","c","c","o","u","n","t"," ","#"," ","$","1","0","0"," ",
             "$","2","0","0"," ","$","3","0","0">>
      [] line = "Account # 100" ->
           <<"A","c","c","o","u","n","t"," ","#"," ","1","0","0">>
      [] line = "Account # $1,200" ->
           <<"A","c","c","o","u","n","t"," ","#"," ","$","1",",","2","0","0">>
      [] line = "Open Accounts: 100 200 300" ->
           <<"O","p","e","n"," ","A","c","c","o","u","n","t","s",":"," ",
             "1","0","0"," ","2","0","0"," ","3","0","0">>
      [] line = "Open Accounts: $100 $200 $300" ->
           <<"O","p","e","n"," ","A","c","c","o","u","n","t","s",":"," ",
             "$","1","0","0"," ","$","2","0","0"," ","$","3","0","0">>
      [] line = "Open Accounts: 100" ->
           <<"O","p","e","n"," ","A","c","c","o","u","n","t","s",":"," ",
             "1","0","0">>
      [] line = "Open Accounts: $1,200" ->
           <<"O","p","e","n"," ","A","c","c","o","u","n","t","s",":"," ",
             "$","1",",","2","0","0">>
      [] line = "Balances: 100 200 300" ->
           <<"B","a","l","a","n","c","e","s",":"," ","1","0","0"," ","2",
             "0","0"," ","3","0","0">>
      [] line = "Balances: $100 $200 $300" ->
           <<"B","a","l","a","n","c","e","s",":"," ","$","1","0","0"," ",
             "$","2","0","0"," ","$","3","0","0">>
      [] line = "Balances: 100" ->
           <<"B","a","l","a","n","c","e","s",":"," ","1","0","0">>
      [] line = "Balances: $1,200" ->
           <<"B","a","l","a","n","c","e","s",":"," ","$","1",",","2","0","0">>
      [] line = "Date Opened: 100 200 300" ->
           <<"D","a","t","e"," ","O","p","e","n","e","d",":"," ","1","0",
             "0"," ","2","0","0"," ","3","0","0">>
      [] line = "Date Opened: $100 $200 $300" ->
           <<"D","a","t","e"," ","O","p","e","n","e","d",":"," ","$","1",
             "0","0"," ","$","2","0","0"," ","$","3","0","0">>
      [] line = "Date Opened: 100" ->
           <<"D","a","t","e"," ","O","p","e","n","e","d",":"," ","1","0","0">>
      [] line = "Date Opened: $1,200" ->
           <<"D","a","t","e"," ","O","p","e","n","e","d",":"," ","$","1",
             ",","2","0","0">>
      [] line = "Date Opened: 03/5/24" ->
           <<"D","a","t","e"," ","O","p","e","n","e","d",":"," ","0","3",
             "/","5","/","2","4">>
      [] line = "Last Payment: 1/2/2020 3/4/2021 5/6/2022" ->
           <<"L","a","s","t"," ","P","a","y","m","e","n","t",":"," ","1",
             "/","2","/","2","0","2","0"," ","3","/","4","/","2","0","2",
             "1"," ","5","/","6","/","2","0","2","2">>
      [] line = "Balances: $1,200 $300 $50" ->
           <<"B","a","l","a","n","c","e","s",":"," ","$","1",",","2","0",
             "0"," ","$","3","0","0"," ","$","5","0">>
      [] line = "Inquiries (2 years): 1 2 3" ->
           <<"I","n","q","u","i","r","i","e","s"," ","(","2"," ","y","e",
             "a","r","s",")",":"," ","1"," ","2"," ","3">>
      [] line = "Inquiries: 4 5 6" ->
           <<"I","n","q","u","i","r","i","e","s",":"," ","4"," ","5"," ","6">>
      [] line = "Credit Utilization: 10% 20% 30%" ->
           <<"C","r","e","d","i","t"," ","U","t","i","l","i","z","a","t",
             "i","o","n",":"," ","1","0","%"," ","2","0","%"," ","3","0","%">>
      [] line = "Total Accounts 7 8 9" ->
           <<"T","o","t","a","l"," ","A","c","c","o","u","n","t","s"," ",
             "7"," ","8"," ","9">>
      [] line = "Acme Bank" ->
           <<"A","c","m","e"," ","B","a","n","k">>
      [] line = "Account Description" ->
           <<"A","c","c","o","u","n","t"," ","D","e","s","c","r","i","p",
             "t","i","o","n">>
      [] line = "OK NO 30" ->
           <<"O","K"," ","N","O"," ","3","0">>
      [] line = "OK NODATA NO  DATA NO\tDATA" ->
           <<"O","K"," ","N","O","D","A","T","A"," ","N","O"," "," ","D",
             "A","T","A"," ","N","O","\t","D","A","T","A">>
      [] line = "Inquiries Creditor Name" ->
           <<"I","n","q","u","i","r","i","e","s"," ","C","r","e","d","i",
             "t","o","r"," ","N","a","m","e">>
      [] line = "Inquiries" ->
           <<"I","n","q","u","i","r","i","e","s">>
      [] line = "ACME 1/2/2020 TransUnion" ->
           <<"A","C","M","E"," ","1","/","2","/","2","0","2","0"," ","T",
             "r","a","n","s","U","n","i","o","n">>
      [] line = "Accounts" ->
           <<"A","c","c","o","u","n","t","s">>
      [] line = "Page 1 of 2" ->
           <<"P","a","g","e"," ","1"," ","o","f"," ","2">>
      [] line = "Public Information" ->
           <<"P","u","b","l","i","c"," ","I","n","f","o","r","m","a","t",
             "i","o","n">>
      [] line = "End of Report" ->
           <<"E","n","d"," ","o","f"," ","R","e","p","o","r","t">>
      [] line = "Creditor Contacts" ->
           <<"C","r","e","d","i","t","o","r"," ","C","o","n","t","a","c",
             "t","s">>
      [] line = "ACCOUNT SUMMARY" ->
           <<"A","C","C","O","U","N","T"," ","S","U","M","M","A","R","Y">>
      [] line = "ZETA LOANS" ->
           <<"Z","E","T","A"," ","L","O","A","N","S">>
      [] line = "High Balance: $500" ->
           <<"H","i","g","h"," ","B","a","l","a","n","c","e",":"," ","$",
             "5","0","0">>

\* the (pattern, key) table of parse_account; every pattern is the label
\* followed by \s*([^\n]*)
key_value_patterns == <<
    [label |-> <<"A","c","c","o","u","n","t"," ","#">>,
     key |-> "account_number"],
    [label |-> <<"H","i","g","h"," ","B","a","l","a","n","c","e",":">>,
     key |-> "high_balance"],
    [label |-> <<"B","a","l","a","n","c","e"," ","O","w","e","d",":">>,
     key |-> "balance_owed"],
    [label |-> <<"A","c","c","o","u","n","t"," ","S","t","a","t","u","s",":">>,
     key |-> "account_status"],
    [label |-> <<"P","a","y","m","e","n","t"," ","S","t","a","t","u","s",":">>,
     key |-> "payment_status"],
    [label |-> <<"D","a","t","e"," ","O","p","e","n","e","d",":">>,
     key |-> "date_opened"],
    [label |-> <<"L","a","s","t"," ","P","a","y","m","e","n","t",":">>,
     key |-> "last_payment"],
    [label |-> <<"A","c","c","o","u","n","t"," ","T","y","p","e",":">>,
     key |-> "account_type"],
    [label |-> <<"C","r","e","d","i","t"," ","L","i","m","i","t",":">>,
     key |-> "credit_limit"],
    [label |-> <<"T","e","r","m"," ","L","e","n","g","t","h",":">>,
     key |-> "term_length"],
    [label |-> <<"C","r","e","d","i","t","o","r"," ","T","y","p","e",":">>,
     key |-> "creditor_type"],
    [label |-> <<"C","r","e","d","i","t","o","r"," ","R","e","m","a","r","k","s",":">>,
     key |-> "creditor_remarks"],
    [label |-> <<"D","a","t","e"," ","R","e","p","o","r","t","e","d",":">>,
     key |-> "date_reported"],
    [label |-> <<"D","a","t","e"," ","o","f"," ","L","a","s","t"," ","A","c","t","i","v","i","t","y",":">>,
     key |-> "date_of_last_activity"],
    [label |-> <<"P","a","s","t"," ","D","u","e"," ","A","m","o","u","n","t",":">>,
     key |-> "past_due_amount"],
    [label |-> <<"L","a","s","t"," ","V","e","r","i","f","i","e","d",":">>,
     key |-> "last_verified"],
    [label |-> <<"C","l","o","s","e","d"," ","D","a","t","e",":">>,
     key |-> "closed_date"],
    [label |-> <<"A","c","c","o","u","n","t"," ","R","a","t","i","n","g",":">>,
     key |-> "account_rating"],
    [label |-> <<"A","c","c","o","u","n","t"," ","D","e","s","c","r","i","p","t","i","o","n",":">>,
     key |-> "account_description"],
    [label |-> <<"D","i","s","p","u","t","e"," ","S","t","a","t","u","s",":">>,
     key |-> "dispute_status"],
    [label |-> <<"P","a","y","m","e","n","t"," ","A","m","o","u","n","t",":">>,
     key |-> "payment_amount"],
    [label |-> <<"P","a","y","m","e","n","t"," ","F","r","e","q","u","e","n","c","y",":">>,
     key |-> "payment_frequency"] >>
---------------------------------------------------------------------------
(* What the patterns of parse_account find in one line                     *)

Bureaus == <<"transunion", "experian", "equifax">>

BureauNames == <<
    <<"t","r","a","n","s","u","n","i","o","n">>,
    <<"e","x","p","e","r","i","a","n">>,
    <<"e","q","u","i","f","a","x">> >>

\* "Two-Year Payment History"
HistoryHeader ==
    <<"T","w","o","-","Y","e","a","r"," ","P","a","y","m","e","n","t"," ",
      "H","i","s","t","o","r","y">>

\* the alternatives of the section regex of line 880
SectionKeywords == {
    <<"d","a","y","s"," ","l","a","t","e">>,
    <<"a","c","c","o","u","n","t"," ","d","e","s","c","r","i","p","t","i","o","n">>,
    <<"s","u","m","m","a","r","y">>,
    <<"i","n","q","u","i","r","i","e","s">>,
    <<"p","u","b","l","i","c"," ","i","n","f","o","r","m","a","t","i","o","n">>,
    <<"a","c","c","o","u","n","t"," ","t","e","r","m","s">>,
    <<"t","r","a","d","e","l","i","n","e","s">>,
    <<"p","r","e","v","i","o","u","s"," ","a","d","d","r","e","s","s","e","s">>,
    <<"c","r","e","d","i","t"," ","s","c","o","r","e">> }

MonthAbbrevs == {
    <<"j","a","n">>, <<"f","e","b">>, <<"m","a","r">>, <<"a","p","r">>,
    <<"m","a","y">>, <<"j","u","n">>, <<"j","u","l">>, <<"a","u","g">>,
    <<"s","e","p">>, <<"o","c","t">>, <<"n","o","v">>, <<"d","e","c">> }

\* length of the match of month_year_token_pattern at s[i], 0 if none:
\* (Jan|Feb|...|Dec|\'\d{2}), ignoring case
MonthTokenLen(s, i) ==
    IF i + 2 > Len(s) THEN 0
    ELSE IF Lower(SubSeq(s, i, i + 2)) \in MonthAbbrevs THEN 3
    ELSE IF s[i] = "'" /\ IsDigit(s[i + 1]) /\ IsDigit(s[i + 2]) THEN 3
    ELSE 0

\* month_year_token_pattern.findall(s), scanning from s[i]: the leftmost
\* match at or after i, then the matches after its end
RECURSIVE FindMonthsFrom(_, _)
FindMonthsFrom(s, i) ==
    IF \A j \in i..Len(s) : MonthTokenLen(s, j) = 0 THEN <<>>
    ELSE LET at == CHOOSE j \in i..Len(s) :
                       /\ MonthTokenLen(s, j) > 0
                       /\ \A h \in i..(j - 1) : MonthTokenLen(s, h) = 0
             n == MonthTokenLen(s, at)
         IN  <<SubSeq(s, at, at + n - 1)>> \o FindMonthsFrom(s, at + n)

\* the literal alternatives of status_token_pattern, in the order the
\* pattern tries them: OK|30|60|90|120|150|CO|COLLECTION
StatusLiterals == <<
    <<"o","k">>, <<"3","0">>, <<"6","0">>, <<"9","0">>, <<"1","2","0">>,
    <<"1","5","0">>, <<"c","o">>,
    <<"c","o","l","l","e","c","t","i","o","n">> >>

\* index of the first non-whitespace character of s at or after i
RECURSIVE SkipSpace(_, _)
SkipSpace(s, i) == IF i <= Len(s) /\ IsSpace(s[i]) THEN SkipSpace(s, i + 1) ELSE i

\* length of the match of status_token_pattern at s[i], 0 if none; the last
\* alternative is NO\s*DATA
StatusTokenLen(s, i) ==
    LET low == Lower(s)
    IN  IF \E k \in 1..Len(StatusLiterals) : MatchesAt(StatusLiterals[k], low, i)
        THEN Len(StatusLiterals[
                 CHOOSE k \in 1..Len(StatusLiterals) :
                     /\ MatchesAt(StatusLiterals[k], low, i)
                     /\ \A j \in 1..(k - 1) : ~MatchesAt(StatusLiterals[j], low, i)])
        ELSE IF /\ MatchesAt(<<"n","o">>, low, i)
                /\ MatchesAt(<<"d","a","t","a">>, low, SkipSpace(low, i + 2))
        THEN SkipSpace(low, i + 2) + 4 - i
        ELSE 0

\* status_token_pattern.findall(s), scanning from s[i]: the leftmost
\* match at or after i, then the matches after its end
RECURSIVE FindStatusesFrom(_, _)
FindStatusesFrom(s, i) ==
    IF \A j \in i..Len(s) : StatusTokenLen(s, j) = 0 THEN <<>>
    ELSE LET at == CHOOSE j \in i..Len(s) :
                       /\ StatusTokenLen(s, j) > 0
                       /\ \A h \in i..(j - 1) : StatusTokenLen(s, h) = 0
             n == StatusTokenLen(s, at)
         IN  <<SubSeq(s, at, at + n - 1)>> \o FindStatusesFrom(s, at + n)

NO_DATA == <<"N","O"," ","D","A","T","A">>
NONE_REPORTED == <<"N","O","N","E"," ","R","E","P","O","R","T","E","D">>

\* lines 910-917: 'NO' becomes 'NO DATA', every other token is upper-cased
processed_statuses(found_statuses) ==
    [j \in 1..Len(found_statuses) |->
        IF Upper(found_statuses[j]) = <<"N","O">>
        THEN NO_DATA
        ELSE Upper(found_statuses[j])]

\* [A-Z\s&.,\'"-]
CreditorChar(c) ==
    \/ \E j \in 1..26 : UpperCase[j] = c
    \/ IsSpace(c)
    \/ c \in {"&", ".", ",", "'", "\"", "-"}

\* re.search(r'Account #|High Balance|Balance Owed', line, re.IGNORECASE)
HasAccountMarker(line) ==
    \/ Contains(<<"a","c","c","o","u","n","t"," ","#">>, Lower(line))
    \/ Contains(<<"h","i","g","h"," ","b","a","l","a","n","c","e">>, Lower(line))
    \/ Contains(<<"b","a","l","a","n","c","e"," ","o","w","e","d">>, Lower(line))

\* line 789, for a stripped non-empty line that is not the first
ContinuesCreditor(line) ==
    /\ \A j \in 1..Len(line) : CreditorChar(line[j])
    /\ ~HasAccountMarker(line)

\* the bureau whose header the stripped line is (lines 885-893), "None" if
\* it is no bureau header
BureauHeader(line) ==
    LET low == Lower(line)
    IN  IF Contains(<<"s","c","o","r","e">>, low) THEN "None"
        ELSE IF Contains(BureauNames[1], low) THEN Bureaus[1]
        ELSE IF Contains(BureauNames[2], low) THEN Bureaus[2]
        ELSE IF Contains(BureauNames[3], low) THEN Bureaus[3]
        ELSE "None"

\* line 897
SaysNoneReported(line) ==
    \/ Contains(<<"n","o","n","e"," ","r","e","p","o","r","t","e","d">>, Lower(line))
    \/ Contains(<<"n","o"," ","h","i","s","t","o","r","y">>, Lower(line))

\* lines 880-881: a section keyword and neither a month nor a status token
EndsHistory(line) ==
    /\ \E w \in SectionKeywords : Contains(w, Lower(line))
    /\ FindMonthsFrom(line, 1) = <<>>
    /\ FindStatusesFrom(line, 1) = <<>>

\* the words captured by pattern k in the line carrying its label:
\* everything after the first occurrence of the label, split
WordsAfterLabel(k, chars) ==
    LET label == key_value_patterns[k].label
        at == Find(label, chars)
    IN  Words(SubSeq(chars, at + Len(label), Len(chars)))

AllLines ==
    {CreditorLine} \cup Range(FieldLines) \cup Range(HistoryLines)
        \cup Range(ValueLines) \cup Range(AgencyLines) \cup Range(BlockLines)
        \cup Range(ListingLines)

\* per line, what each pattern of parse_account finds in it
LineInfo ==
    [line \in AllLines |->
        LET chars == Chars(line)
            stripped == Strip(chars)
        IN  [ blank |-> stripped = <<>>,
              words |-> Words(chars),
              labelled |-> { k \in 1..Len(key_value_patterns) :
                               Contains(key_value_patterns[k].label, chars) },
              after_label |->
                  [k \in 1..Len(key_value_patterns) |->
                      IF Contains(key_value_patterns[k].label, chars)
                      THEN WordsAfterLabel(k, chars)
                      ELSE <<>>],
              stripped |-> stripped,
              continues_creditor |-> ContinuesCreditor(stripped),
              header |-> Contains(HistoryHeader, chars),
              ends_history |-> EndsHistory(stripped),
              bureau |-> BureauHeader(stripped),
              none_reported |-> SaysNoneReported(stripped),
              months |-> LET found == FindMonthsFrom(stripped, 1)
                         IN  [j \in 1..Len(found) |-> Upper(found[j])],
              statuses |-> processed_statuses(FindStatusesFrom(stripped, 1)) ]]

---------------------------------------------------------------------------
(* parse_account                                                            *)

BureauSet == Range(Bureaus)

\* a Python value that is a str here and a list there carries its type
PyStr(s) == [str |-> s]
PyList(l) == [list |-> l]
None == [none |-> TRUE]

\* lines 785-794: the stripped creditor lines of the text, from line i on
RECURSIVE creditor_lines(_, _)
creditor_lines(text, i) ==
    IF i > Len(text) THEN <<>>
    ELSE IF LineInfo[text[i]].blank THEN creditor_lines(text, i + 1)
    ELSE IF i = 1 \/ LineInfo[text[i]].continues_creditor
    THEN <<LineInfo[text[i]].stripped>> \o creditor_lines(text, i + 1)
    ELSE <<>>

\* lines 796-806
NewAccountData(creditor) ==
    [ creditor |-> creditor,
      transunion |-> <<>>,
      experian |-> <<>>,
      equifax |-> <<>>,
      payment_history |->
          [b \in BureauSet |-> [months |-> <<>>, statuses |-> PyList(<<>>)]] ]

\* re.search(pattern k, account_text): the line (from 1) holding the first
\* occurrence of the label, 0 if the label occurs nowhere
MatchedLine(text, k) ==
    IF \E j \in 1..Len(text) : k \in LineInfo[text[j]].labelled
    THEN CHOOSE j \in 1..Len(text) :
             /\ k \in LineInfo[text[j]].labelled
             /\ \A h \in 1..(j - 1) : k \notin LineInfo[text[h]].labelled
    ELSE 0

\* the words of the first non-blank line after line j, <<>> if there is none
RECURSIVE NextLineWords(_, _)
NextLineWords(text, j) ==
    IF j + 1 > Len(text) THEN <<>>
    ELSE IF LineInfo[text[j + 1]].blank THEN NextLineWords(text, j + 1)
    ELSE LineInfo[text[j + 1]].words

\* matches.group(1).strip().split() (lines 836-837) for the match in line j.
\* After the label, \s* skips whitespace, newlines included, and ([^\n]*)
\* takes the rest of the line it stops in: the label's own line, or, when
\* nothing but whitespace follows the label there, the next non-blank line.
CapturedValues(text, j, k) ==
    IF LineInfo[text[j]].after_label[k] # <<>>
    THEN LineInfo[text[j]].after_label[k]
    ELSE NextLineWords(text, j)

\* d[key] = value
SetKey(d, key, value) == (key :> value) @@ d

\* a fan-out that stores three values in the opposite bureau order
FanOutReversed(data, key, values) ==
    IF Len(values) >= 3
    THEN [data EXCEPT
            !.transunion = SetKey(@, key, clean_value(values[3])),
            !.experian = SetKey(@, key, clean_value(values[2])),
            !.equifax = SetKey(@, key, clean_value(values[1]))]
    ELSE IF Len(values) = 1
    THEN [data EXCEPT
            !.transunion = SetKey(@, key, clean_value(values[1])),
            !.experian = SetKey(@, key, clean_value(values[1])),
            !.equifax = SetKey(@, key, clean_value(values[1]))]
    ELSE data

\* a fan-out that stores a single value under the first bureau only
FanOutFirstOnly(data, key, values) ==
    IF Len(values) >= 3
    THEN [data EXCEPT
            !.transunion = SetKey(@, key, clean_value(values[1])),
            !.experian = SetKey(@, key, clean_value(values[2])),
            !.equifax = SetKey(@, key, clean_value(values[3]))]
    ELSE IF Len(values) = 1
    THEN [data EXCEPT
            !.transunion = SetKey(@, key, clean_value(values[1]))]
    ELSE data

\* lines 841-847: the values of one matched pattern stored per bureau
FanOut(data, key, values) ==
    IF Len(values) >= 3
    THEN [data EXCEPT
            !.transunion = SetKey(@, key, clean_value(values[1])),
            !.experian = SetKey(@, key, clean_value(values[2])),
            !.equifax = SetKey(@, key, clean_value(values[3]))]
    ELSE IF Len(values) = 1
    THEN [data EXCEPT
            !.transunion = SetKey(@, key, clean_value(values[1])),
            !.experian = SetKey(@, key, clean_value(values[1])),
            !.equifax = SetKey(@, key, clean_value(values[1]))]
    ELSE data

\* lines 833-847 for patterns k, k+1, ...
RECURSIVE ApplyPatterns(_, _, _)
ApplyPatterns(data, text, k) ==
    IF k > Len(key_value_patterns) THEN data
    ELSE LET j == MatchedLine(text, k)
         IN  ApplyPatterns(
                 IF j = 0 THEN data
                 ELSE FanOut(data, key_value_patterns[k].key,
                             CapturedValues(text, j, k)),
                 text, k + 1)

\* a header search that answers 0 where the header is missing
FindHistoryStartOrZero(text) ==
    IF \E j \in 1..Len(text) : LineInfo[text[j]].header
    THEN (CHOOSE j \in 1..Len(text) :
              /\ LineInfo[text[j]].header
              /\ \A h \in 1..(j - 1) : ~LineInfo[text[h]].header) - 1
    ELSE 0

\* lines 854-857: index (from 0) of the first line holding the header, -1
FindHistoryStart(text) ==
    IF \E j \in 1..Len(text) : LineInfo[text[j]].header
    THEN (CHOOSE j \in 1..Len(text) :
              /\ LineInfo[text[j]].header
              /\ \A h \in 1..(j - 1) : ~LineInfo[text[h]].header) - 1
    ELSE -1

HistoryWindow == 100
max_history_length == 24

Min(a, b) == IF a < b THEN a ELSE b

\* the bound of the range of line 875
ScanLimit(text, start) == Min(Len(text), start + HistoryWindow)

\* s[:n], the oldest n tokens
FirstN(s, n) == IF Len(s) <= n THEN s ELSE SubSeq(s, 1, n)

\* s[-n:]
LastN(s, n) == IF Len(s) <= n THEN s ELSE SubSeq(s, Len(s) - n + 1, Len(s))

\* an alignment that adds no fill
RightAlignNoPad(tokens, n, fill) == tokens

\* lines 932-943: tokens placed at the right end of n slots holding fill
RightAlign(tokens, n, fill) ==
    [j \in 1..n |->
        IF j > n - Len(tokens) THEN tokens[j - (n - Len(tokens))] ELSE fill]

\* a finalization that treats the 'NONE REPORTED' marker as a status
FinalHistoryNoSentinel(extracted_months, extracted_statuses) ==
    LET months_to_use == LastN(extracted_months, max_history_length)
        statuses_to_use == LastN(extracted_statuses, max_history_length)
    IN  [ months |->
              RightAlign([j \in 1..Len(months_to_use) |->
                             Remove(months_to_use[j], "'")],
                         max_history_length, <<>>),
          statuses |->
              PyList(RightAlign(statuses_to_use, max_history_length, NO_DATA)) ]

\* lines 922-952: the payment_history entry of one bureau
FinalHistory(extracted_months, extracted_statuses) ==
    IF \E j \in 1..Len(extracted_statuses) : extracted_statuses[j] = NONE_REPORTED
    THEN [months |-> <<>>, statuses |-> PyStr(NONE_REPORTED)]
    ELSE LET months_to_use == LastN(extracted_months, max_history_length)
             statuses_to_use == LastN(extracted_statuses, max_history_length)
         IN  [ months |->
                   RightAlign([j \in 1..Len(months_to_use) |->
                                  Remove(months_to_use[j], "'")],
                              max_history_length, <<>>),
               statuses |->
                   PyList(RightAlign(statuses_to_use, max_history_length, NO_DATA)) ]

(* The steps of parse_account *)

\* lines 783-806
ExtractCreditor ==
    /\ pc = "creditor"
    /\ account_data' =
           NewAccountData(Strip(Join(<<" ">>, creditor_lines(account_text, 1))))
    /\ pc' = "fields"
    /\ UNCHANGED <<account_text, history_start_index, scan_i, current_bureau,
                   temp_months, temp_statuses, fin_bureau>>
    /\ UNCHANGED notAccount

\* lines 833-847
ExtractFields ==
    /\ pc = "fields"
    /\ account_data' = ApplyPatterns(account_data, account_text, 1)
    /\ pc' = "header"
    /\ UNCHANGED <<account_text, history_start_index, scan_i, current_bureau,
                   temp_months, temp_statuses, fin_bureau>>
    /\ UNCHANGED notAccount

\* lines 851-864 and 955-962: without the header the record is returned
FindHeader ==
    /\ pc = "header"
    /\ history_start_index' = FindHistoryStart(account_text)
    /\ IF history_start_index' = -1
       THEN /\ pc' = "done"
            /\ UNCHANGED <<scan_i, current_bureau, temp_months, temp_statuses>>
       ELSE /\ temp_months' = [b \in BureauSet |-> <<>>]
            /\ temp_statuses' = [b \in BureauSet |-> <<>>]
            /\ current_bureau' = "None"
            /\ scan_i' = history_start_index' + 1
            /\ pc' = IF scan_i' < ScanLimit(account_text, history_start_index')
                     THEN "scan" ELSE "finalize"
    /\ UNCHANGED <<account_text, account_data, fin_bureau>>
    /\ UNCHANGED notAccount

ScannedLine == LineInfo[account_text[scan_i + 1]]

\* the loop of line 875 goes on to the next line, or ends
ScanAdvance ==
    /\ scan_i' = scan_i + 1
    /\ pc' = IF scan_i + 1 < ScanLimit(account_text, history_start_index)
             THEN "scan" ELSE "finalize"

\* lines 880-882: a section keyword ends the scan
ScanBreak ==
    /\ pc = "scan"
    /\ ScannedLine.ends_history
    /\ pc' = "finalize"
    /\ UNCHANGED <<account_text, account_data, history_start_index, scan_i,
                   current_bureau, temp_months, temp_statuses, fin_bureau>>
    /\ UNCHANGED notAccount

\* lines 885-893: a bureau header
ScanBureau ==
    /\ pc = "scan"
    /\ ~ScannedLine.ends_history
    /\ ScannedLine.bureau # "None"
    /\ current_bureau' = ScannedLine.bureau
    /\ ScanAdvance
    /\ UNCHANGED <<account_text, account_data, history_start_index,
                   temp_months, temp_statuses, fin_bureau>>
    /\ UNCHANGED notAccount

\* lines 897-901: the current bureau reports no history
ScanNoneReported ==
    /\ pc = "scan"
    /\ ~ScannedLine.ends_history
    /\ ScannedLine.bureau = "None"
    /\ current_bureau # "None"
    /\ ScannedLine.none_reported
    /\ temp_months' = [temp_months EXCEPT ![current_bureau] = <<>>]
    /\ temp_statuses' = [temp_statuses EXCEPT ![current_bureau] = <<NONE_REPORTED>>]
    /\ current_bureau' = "None"
    /\ ScanAdvance
    /\ UNCHANGED <<account_text, account_data, history_start_index, fin_bureau>>
    /\ UNCHANGED notAccount

\* a token step that starts the streams afresh once the bureau's marker
\* is in them
ScanTokensOverSentinel ==
    /\ pc = "scan"
    /\ ~ScannedLine.ends_history
    /\ ScannedLine.bureau = "None"
    /\ current_bureau # "None"
    /\ ~ScannedLine.none_reported
    /\ temp_months' =
           [temp_months EXCEPT ![current_bureau] = ScannedLine.months]
    /\ temp_statuses' =
           [temp_statuses EXCEPT ![current_bureau] = ScannedLine.statuses]
    /\ ScanAdvance
    /\ UNCHANGED <<account_text, account_data, history_start_index,
                   current_bureau, fin_bureau>>
    /\ UNCHANGED notAccount

\* lines 903-918: the tokens of the line join the current bureau's streams
ScanTokens ==
    /\ pc = "scan"
    /\ ~ScannedLine.ends_history
    /\ ScannedLine.bureau = "None"
    /\ current_bureau # "None"
    /\ ~ScannedLine.none_reported
    /\ temp_months' =
           [temp_months EXCEPT ![current_bureau] = @ \o ScannedLine.months]
    /\ temp_statuses' =
           [temp_statuses EXCEPT ![current_bureau] = @ \o ScannedLine.statuses]
    /\ ScanAdvance
    /\ UNCHANGED <<account_text, account_data, history_start_index,
                   current_bureau, fin_bureau>>
    /\ UNCHANGED notAccount

\* line 895: no current bureau, the line is passed over
ScanSkip ==
    /\ pc = "scan"
    /\ ~ScannedLine.ends_history
    /\ ScannedLine.bureau = "None"
    /\ current_bureau = "None"
    /\ ScanAdvance
    /\ UNCHANGED <<account_text, account_data, history_start_index,
                   current_bureau, temp_months, temp_statuses, fin_bureau>>
    /\ UNCHANGED notAccount

\* lines 921-953, one bureau per step; the record is returned after the last
FinalizeBureau ==
    /\ pc = "finalize"
    /\ account_data' =
           [account_data EXCEPT
               !.payment_history[Bureaus[fin_bureau]] =
                   FinalHistory(temp_months[Bureaus[fin_bureau]],
                                temp_statuses[Bureaus[fin_bureau]])]
    /\ fin_bureau' = fin_bureau + 1
    /\ pc' = IF fin_bureau = Len(Bureaus) THEN "done" ELSE "finalize"
    /\ UNCHANGED <<account_text, history_start_index, scan_i, current_bureau,
                   temp_months, temp_statuses>>
    /\ UNCHANGED notAccount

---------------------------------------------------------------------------
(* The regular expressions of parse_collection and extract_summary.        *)
(*                                                                         *)
(* A pattern is a sequence of elements: a literal, an optional literal     *)
(* (x?), or a run of characters of one class (\s+, \d+, [0-9,]+, ...) that *)
(* is a capture group or not.  In every pattern below the element after a  *)
(* run cannot start with a character of the run's class, so the greedy run *)
(* is the only one the match can use.                                      *)

Lit(t) == [kind |-> "lit", text |-> t, cls |-> "", min |-> 0]
Opt(t) == [kind |-> "opt", text |-> t, cls |-> "", min |-> 0]
Skip(cls, min) == [kind |-> "skip", text |-> <<>>, cls |-> cls, min |-> min]
Group(cls, min) == [kind |-> "group", text |-> <<>>, cls |-> cls, min |-> min]

InClass(c, cls) ==
    CASE cls = "\\s" -> IsSpace(c)
      [] cls = "\\d" -> IsDigit(c)
      [] cls = "[0-9,]" -> IsDigit(c) \/ c = ","
      [] cls = "[0-9,.]" -> IsDigit(c) \/ c \in {",", "."}
      [] cls = "[0-9/]" -> IsDigit(c) \/ c = "/"
      [] cls = "[^\\n]" -> c # "\n"

\* the length of the longest run of characters of the class from s[i] on
RunLen(s, i, cls) ==
    CHOOSE n \in 0..(Len(s) - i + 1) :
        /\ \A j \in i..(i + n - 1) : InClass(s[j], cls)
        /\ (i + n > Len(s) \/ ~InClass(s[i + n], cls))

\* the literal t stands at s[i]; ignorecase is re.IGNORECASE
LitAt(t, s, i, ignorecase) ==
    /\ i + Len(t) - 1 <= Len(s)
    /\ IF ignorecase
       THEN \A k \in 1..Len(t) : ToLowerChar(s[i + k - 1]) = ToLowerChar(t[k])
       ELSE \A k \in 1..Len(t) : s[i + k - 1] = t[k]

NoMatch == [ok |-> FALSE, start |-> 0, end |-> 0, groups |-> <<>>]

\* the match of the pattern elements at s[i], given the groups so far
RECURSIVE MatchFrom(_, _, _, _, _, _)
MatchFrom(pattern, s, start, i, groups, ignorecase) ==
    IF pattern = <<>>
    THEN [ok |-> TRUE, start |-> start, end |-> i, groups |-> groups]
    ELSE LET e == Head(pattern)
             rest == Tail(pattern)
         IN  CASE e.kind = "lit" ->
                    IF LitAt(e.text, s, i, ignorecase)
                    THEN MatchFrom(rest, s, start, i + Len(e.text), groups, ignorecase)
                    ELSE NoMatch
               [] e.kind = "opt" ->
                    IF LitAt(e.text, s, i, ignorecase)
                    THEN MatchFrom(rest, s, start, i + Len(e.text), groups, ignorecase)
                    ELSE MatchFrom(rest, s, start, i, groups, ignorecase)
               [] e.kind \in {"skip", "group"} ->
                    LET n == RunLen(s, i, e.cls)
                    IN  IF n < e.min THEN NoMatch
                        ELSE MatchFrom(rest, s, start, i + n,
                                       IF e.kind = "group"
                                       THEN Append(groups, SubSeq(s, i, i + n - 1))
                                       ELSE groups,
                                       ignorecase)

MatchAt(pattern, s, i, ignorecase) == MatchFrom(pattern, s, i, i, <<>>, ignorecase)

\* re.search(pattern, s) looking from s[from] on: the leftmost match
SearchFrom(pattern, s, from, ignorecase) ==
    IF \E i \in from..Len(s) : MatchAt(pattern, s, i, ignorecase).ok
    THEN MatchAt(pattern, s,
                 CHOOSE i \in from..Len(s) :
                     /\ MatchAt(pattern, s, i, ignorecase).ok
                     /\ \A h \in from..(i - 1) : ~MatchAt(pattern, s, h, ignorecase).ok,
                 ignorecase)
    ELSE NoMatch

re_search(pattern, s, ignorecase) == SearchFrom(pattern, s, 1, ignorecase)

\* re.findall(pattern, s) for a pattern with one group: the group of every
\* match, left to right, each search starting where the last match ended
RECURSIVE FindAllFrom(_, _, _)
FindAllFrom(pattern, s, from) ==
    LET m == SearchFrom(pattern, s, from, FALSE)
    IN  IF m.ok THEN <<m.groups[1]>> \o FindAllFrom(pattern, s, m.end)
        ELSE <<>>

re_findall(pattern, s) == FindAllFrom(pattern, s, 1)

---------------------------------------------------------------------------
(* parse_collection and extract_summary                                    *)

\* [A-Z0-9\s&.,\'"-/]: "-/ is the range of characters from '"' to '/'
AgencyChar(c) ==
    \/ \E i \in 1..26 : UpperCase[i] = c
    \/ IsDigit(c)
    \/ IsSpace(c)
    \/ c \in {"\"", "#", "$", "%", "&", "'", "(", ")", "*", "+", ",", "-", ".", "/"}

\* ([A-Z][A-Z0-9\s&.,\'"-/]+?)\s*\n with the group starting at s[p]: the
\* ends the group may have; the lazy +? takes the least
AgencyEnds(s, p) ==
    { q \in (p + 1)..Len(s) :
        /\ \A j \in (p + 1)..q : AgencyChar(s[j])
        /\ \E r \in (q + 1)..Len(s) :
               s[r] = "\n" /\ \A j \in (q + 1)..(r - 1) : IsSpace(s[j]) }

AgencyAt(s, p) ==
    /\ p >= 1
    /\ p <= Len(s)
    /\ \E i \in 1..26 : UpperCase[i] = s[p]
    /\ AgencyEnds(s, p) # {}

AgencyName(s, p) ==
    Strip(SubSeq(s, p, CHOOSE q \in AgencyEnds(s, p) :
                           \A o \in AgencyEnds(s, p) : q <= o))

CollectionWord == <<"C","o","l","l","e","c","t","i","o","n">>

\* Collection\s*\n followed by the group: the whitespace after the word
\* ends in the '\n' the pattern names, and the group starts right after it.
\* The position of the group for the word at s[c], 0 if there is no match.
AgencyAfterWord(s, c) ==
    LET i == c + Len(CollectionWord)
        n == RunLen(s, i, "\\s")
    IN  IF /\ MatchesAt(CollectionWord, s, c)
           /\ n >= 1
           /\ s[i + n - 1] = "\n"
           /\ AgencyAt(s, i + n)
        THEN i + n
        ELSE 0

\* lines 633-640: the agency name, None if neither pattern matches
AgencyOf(s) ==
    IF \E c \in 1..Len(s) : AgencyAfterWord(s, c) > 0
    THEN PyStr(AgencyName(s, AgencyAfterWord(s,
             CHOOSE c \in 1..Len(s) :
                 /\ AgencyAfterWord(s, c) > 0
                 /\ \A h \in 1..(c - 1) : AgencyAfterWord(s, h) = 0)))
    ELSE IF AgencyAt(s, 1) THEN PyStr(AgencyName(s, 1))
    ELSE None

\* lines 651-659
collection_patterns == <<
    [pattern |-> <<Lit(<<"A","c","c","o","u","n","t"," ","#">>),
                   Skip("\\s", 0), Group("[^\\n]", 0)>>,
     key |-> "account_number"],
    [pattern |-> <<Lit(<<"H","i","g","h"," ","B","a","l","a","n","c","e",":">>),
                   Skip("\\s", 0), Opt(<<"$">>), Group("[0-9,.]", 1)>>,
     key |-> "high_balance"],
    [pattern |-> <<Lit(<<"B","a","l","a","n","c","e"," ","O","w","e","d",":">>),
                   Skip("\\s", 0), Opt(<<"$">>), Group("[0-9,.]", 1)>>,
     key |-> "balance_owed"],
    [pattern |-> <<Lit(<<"D","a","t","e"," ","R","e","p","o","r","t","e","d",":">>),
                   Skip("\\s", 0), Group("[0-9/]", 1)>>,
     key |-> "date_reported"],
    [pattern |-> <<Lit(<<"D","a","t","e"," ","O","p","e","n","e","d",":">>),
                   Skip("\\s", 0), Group("[0-9/]", 1)>>,
     key |-> "date_opened"],
    [pattern |-> <<Lit(<<"O","r","i","g","i","n","a","l"," ","C","r","e","d","i","t","o","r">>),
                   Skip("\\s", 0), Group("[^\\n]", 0)>>,
     key |-> "original_creditor"],
    [pattern |-> <<Lit(<<"L","a","s","t"," ","P","a","y","m","e","n","t",":">>),
                   Skip("\\s", 0), Group("[0-9/]", 0)>>,
     key |-> "last_payment"] >>

\* lines 667-676: the matches of one pattern stored per bureau
StoreMatches(data, key, matches) ==
    IF Len(matches) >= 3
    THEN [data EXCEPT
            !.transunion = SetKey(@, key, clean_value(matches[1])),
            !.experian = SetKey(@, key, clean_value(matches[2])),
            !.equifax = SetKey(@, key, clean_value(matches[3]))]
    ELSE IF Len(matches) = 1
    THEN [data EXCEPT
            !.transunion = SetKey(@, key, clean_value(matches[1])),
            !.experian = SetKey(@, key, clean_value(matches[1])),
            !.equifax = SetKey(@, key, clean_value(matches[1]))]
    ELSE data

\* lines 662-676 for patterns k, k+1, ...
RECURSIVE CollectPatterns(_, _, _)
CollectPatterns(data, s, k) ==
    IF k > Len(collection_patterns) THEN data
    ELSE CollectPatterns(
             StoreMatches(data, collection_patterns[k].key,
                          re_findall(collection_patterns[k].pattern, s)),
             s, k + 1)

\* lines 630-685
parse_collection(collection_text) ==
    LET agency == AgencyOf(collection_text)
    IN  IF agency = None THEN None
        ELSE LET data == CollectPatterns(
                             [agency |-> agency.str, transunion |-> <<>>,
                              experian |-> <<>>, equifax |-> <<>>],
                             collection_text, 1)
             IN  IF \E b \in BureauSet : DOMAIN data[b] # {}
                 THEN data
                 ELSE None

\* \s+(\d+)\s+(\d+)\s+(\d+) and its variants with '$' and '%'
Digits3 ==
    <<Skip("\\s", 1), Group("\\d", 1), Skip("\\s", 1), Group("\\d", 1),
      Skip("\\s", 1), Group("\\d", 1)>>
Dollars3 ==
    <<Skip("\\s", 1), Lit(<<"$">>), Group("[0-9,]", 1),
      Skip("\\s", 1), Lit(<<"$">>), Group("[0-9,]", 1),
      Skip("\\s", 1), Lit(<<"$">>), Group("[0-9,]", 1)>>
Percents3 ==
    <<Skip("\\s", 1), Group("\\d", 1), Lit(<<"%">>),
      Skip("\\s", 1), Group("\\d", 1), Lit(<<"%">>),
      Skip("\\s", 1), Group("\\d", 1), Lit(<<"%">>)>>

\* lines 430-442
summary_patterns == <<
    [pattern |-> <<Lit(<<"T","o","t","a","l"," ","A","c","c","o","u","n","t","s">>)>>
                   \o Digits3,
     key |-> "total_accounts"],
    [pattern |-> <<Lit(<<"O","p","e","n"," ","A","c","c","o","u","n","t","s",":">>)>>
                   \o Digits3,
     key |-> "open_accounts"],
    [pattern |-> <<Lit(<<"C","l","o","s","e","d"," ","A","c","c","o","u","n","t","s",":">>)>>
                   \o Digits3,
     key |-> "closed_accounts"],
    [pattern |-> <<Lit(<<"D","e","l","i","n","q","u","e","n","t",":">>)>>
                   \o Digits3,
     key |-> "delinquent"],
    [pattern |-> <<Lit(<<"D","e","r","o","g","a","t","o","r","y",":">>)>>
                   \o Digits3,
     key |-> "derogatory"],
    [pattern |-> <<Lit(<<"B","a","l","a","n","c","e","s",":">>)>>
                   \o Dollars3,
     key |-> "balances"],
    [pattern |-> <<Opt(<<"M","o","n","t","h","l","y"," ">>),
                   Lit(<<"P","a","y","m","e","n","t">>),
                   Opt(<<"s">>),
                   Lit(<<":">>)>>
                   \o Dollars3,
     key |-> "monthly_payments"],
    [pattern |-> <<Lit(<<"C","r","e","d","i","t"," ","U","t","i","l","i","z","a","t","i","o","n",":">>)>>
                   \o Percents3,
     key |-> "credit_utilization"],
    [pattern |-> <<Lit(<<"P","u","b","l","i","c"," ","R","e","c","o","r","d","s",":">>)>>
                   \o Digits3,
     key |-> "public_records"],
    [pattern |-> <<Lit(<<"I","n","q","u","i","r","i","e","s">>),
                   Skip("\\s", 1),
                   Lit(<<"(","2">>),
                   Skip("\\s", 1),
                   Lit(<<"y","e","a","r">>),
                   Opt(<<"s">>),
                   Lit(<<")",":">>)>>
                   \o Digits3,
     key |-> "inquiries_2y"],
    [pattern |-> <<Lit(<<"I","n","q","u","i","r","i","e","s">>),
                   Skip("\\s", 1),
                   Lit(<<"(">>),
                   Skip("\\d", 1),
                   Skip("\\s", 1),
                   Lit(<<"y","e","a","r">>),
                   Opt(<<"s">>),
                   Lit(<<")",":">>)>>
                   \o Digits3,
     key |-> "inquiries_alt"] >>

\* lines 457-460
alt_inquiry_patterns == <<
    <<Lit(<<"I","n","q","u","i","r","i","e","s">>),
                   Skip("\\s", 1),
                   Lit(<<"(">>),
                   Skip("\\d", 1),
                   Lit(<<" ","y","r",")",":">>)>>
                   \o Digits3,
    <<Lit(<<"I","n","q","u","i","r","i","e","s",":">>)>>
                   \o Digits3 >>

\* lines 449-453: the three groups of a match stored per bureau; the value
\* of inquiries_alt goes to inquiries_2y where that key is not yet there
StoreGroups(summ, key, groups) ==
    [b \in BureauSet |->
        LET i == CHOOSE n \in 1..3 : Bureaus[n] = b
        IN  IF key = "inquiries_alt" /\ "inquiries_2y" \notin DOMAIN summ[b]
            THEN SetKey(summ[b], "inquiries_2y", groups[i])
            ELSE SetKey(summ[b], key, groups[i])]

\* lines 446-453 for patterns k, k+1, ...
RECURSIVE SummaryPatterns(_, _, _)
SummaryPatterns(summ, s, k) ==
    IF k > Len(summary_patterns) THEN summ
    ELSE LET m == re_search(summary_patterns[k].pattern, s, TRUE)
         IN  SummaryPatterns(
                 IF m.ok THEN StoreGroups(summ, summary_patterns[k].key, m.groups)
                 ELSE summ,
                 s, k + 1)

\* lines 462-467: the first alternative pattern that matches, from k on
RECURSIVE AltInquiries(_, _, _)
AltInquiries(summ, s, k) ==
    IF k > Len(alt_inquiry_patterns) THEN summ
    ELSE LET m == re_search(alt_inquiry_patterns[k], s, TRUE)
         IN  IF m.ok THEN StoreGroups(summ, "inquiries_2y", m.groups)
             ELSE AltInquiries(summ, s, k + 1)

\* lines 427-467
extract_summary(summ, s) ==
    LET first == SummaryPatterns(summ, s, 1)
    IN  IF \E b \in BureauSet : "inquiries_2y" \in DOMAIN first[b]
        THEN first
        ELSE AltInquiries(first, s, 1)

\* credit_report["summary"] as initialize_credit_report leaves it (line 29)
EmptySummary == [b \in BureauSet |-> <<>>]

\* '\n'.join(lines) + '\n'
TextOf(lines) ==
    Join(<<"\n">>, [j \in 1..Len(lines) |-> Chars(lines[j])]) \o <<"\n">>

(* The three parsers on one line of values *)

\* the account section: the creditor line and the line of values
SectionLines == <<agency_line, value_line>>

\* the collection section, also the text of the document
CollectionText == CollectionWord \o <<"\n">> \o TextOf(SectionLines)

\* parse_account (lines 782-962) on a section without payment history
ParseAccountSection ==
    /\ "account" \notin parsed
    /\ value_line # ""
    /\ FindHistoryStart(SectionLines) = -1
    /\ section_account' =
           ApplyPatterns(
               NewAccountData(Strip(Join(<<" ">>, creditor_lines(SectionLines, 1)))),
               SectionLines, 1)
    /\ parsed' = parsed \cup {"account"}
    /\ UNCHANGED <<value_line, agency_line, collection_data, summary>>
    /\ UNCHANGED notFanout

\* parse_collection (lines 630-685)
ParseCollectionSection ==
    /\ "collection" \notin parsed
    /\ value_line # ""
    /\ collection_data' = parse_collection(CollectionText)
    /\ parsed' = parsed \cup {"collection"}
    /\ UNCHANGED <<value_line, agency_line, section_account, summary>>
    /\ UNCHANGED notFanout

\* extract_summary (lines 427-467)
ExtractSummary ==
    /\ "summary" \notin parsed
    /\ value_line # ""
    /\ summary' = extract_summary(summary, CollectionText)
    /\ parsed' = parsed \cup {"summary"}
    /\ UNCHANGED <<value_line, agency_line, section_account, collection_data>>
    /\ UNCHANGED notFanout

---------------------------------------------------------------------------
(* parse_credit_report: the extraction steps on one report                 *)
(*                                                                         *)
(* The page is known by its words (text and top), the text by what the     *)
(* anchor patterns of each extraction step find in it.                     *)

\* any(k in text for k in keys), on the lower-cased text of a word
ContainsAny(keys, chars) == \E k \in keys : Contains(k, Lower(chars))

\* line 152, line 154
NameKeys == { <<"n","a","m","e">> }
NameEndKeys ==
    { <<"a","l","s","o">>, <<"d","a","t","e">>, <<"c","o","n","s","u","m","e","r">>, <<"t","r","a","n","s","u","n","i","o","n">>, <<"e","q","u","i","f","a","x">>,
      <<"e","x","p","e","r","i","a","n">>, <<"h","t","t","p","s">>, <<"s","t","a","t","e","m","e","n","t">> }

\* line 259, line 255
PreviousKeys == { <<"p","r","e","v","i","o","u","s">>, <<"p","r","i","o","r">> }
SECTION_TRIGGERS ==
    { <<"e","m","p","l","o","y","e","r">>, <<"d","a","t","e">>, <<"c","o","n","s","u","m","e","r">>, <<"t","r","a","n","s","u","n","i","o","n">>, <<"e","x","p","e","r","i","a","n">>,
      <<"e","q","u","i","f","a","x">>, <<"s","t","a","t","e","m","e","n","t">>, <<"h","t","t","p","s">> }

\* the loops of lines 150-156 and 257-263: the first word holding a start
\* key, 0 if there is none
AnchorStart(words, keys) ==
    LET hits == { j \in 1..Len(words) : ContainsAny(keys, words[j].text) }
    IN  IF hits = {} THEN 0 ELSE CHOOSE j \in hits : \A h \in hits : j <= h

\* the first word after the start word holding an end key, 0 if none
AnchorEnd(words, start, keys) ==
    LET hits == { j \in (start + 1)..Len(words) :
                    ContainsAny(keys, words[j].text) }
    IN  IF start = 0 \/ hits = {} THEN 0
        ELSE CHOOSE j \in hits : \A h \in hits : j <= h

\* lines 148-158: both ends of the name block were found
NameLocated(words) ==
    AnchorEnd(words, AnchorStart(words, NameKeys), NameEndKeys) > 0

\* lines 161-164
name_words(words) ==
    LET name_start == words[AnchorStart(words, NameKeys)].top - 1
        name_end ==
            words[AnchorEnd(words, AnchorStart(words, NameKeys), NameEndKeys)].top
    IN  SelectSeq(words, LAMBDA w :
            /\ name_start <= w.top
            /\ w.top < name_end
            /\ Lower(w.text) # <<"n","a","m","e">>)

\* lines 265-269 compare prev_start < w["top"] < prev_end for every word;
\* prev_start and prev_end are None where the loop of lines 257-263 did not
\* set them, and a comparison of None with a number is a TypeError
PreviousAddressRaises(words) ==
    LET s == AnchorStart(words, PreviousKeys)
        e == AnchorEnd(words, s, SECTION_TRIGGERS)
    IN  \/ s = 0 /\ words # <<>>
        \/ s > 0 /\ e = 0 /\ \E j \in 1..Len(words) : words[s].top - 1 < words[j].top

\* lines 265-269, for a block with both ends
addr_words(words) ==
    LET s == AnchorStart(words, PreviousKeys)
        e == AnchorEnd(words, s, SECTION_TRIGGERS)
        prev_start == words[s].top - 1
        prev_end == words[e].top - 2
    IN  SelectSeq(words, LAMBDA w :
            /\ prev_start < w.top
            /\ w.top < prev_end
            /\ Lower(w.text) \notin { <<"p","r","e","v","i","o","u","s">>, <<"a","d","d","r","e","s","s">> })

\* lines 25-35
InitialReport ==
    [ personal_info |-> [b \in BureauSet |-> <<>>],
      summary |-> [b \in BureauSet |-> <<>>],
      accounts |-> <<>>,
      collections |-> <<>>,
      inquiries |-> <<>>,
      public_information |-> [b \in BureauSet |-> <<>>] ]

\* self.credit_report[section][bureau][key] = value for every bureau
SetForAll(report, section, key, value) ==
    [report EXCEPT ![section] = [b \in BureauSet |-> SetKey(@[b], key, value)]]

\* lines 217-224: the year of birth, read where the name block was located
WithBirthYear(report) ==
    IF "dob" \in report_doc.info /\ NameLocated(page_words)
    THEN SetForAll(report, "personal_info", "year_of_birth", <<"1","9","8","0">>)
    ELSE report

\* lines 227-242: the current address goes to transunion only
WithCurrentAddress(report) ==
    IF "current_address" \in report_doc.info
    THEN [report EXCEPT !.personal_info.transunion =
             SetKey(@, "current_address", <<"1"," ","M","A","I","N"," ","C","I","T","Y"," ","S","T">>)]
    ELSE report

\* lines 245-250
WithReportDate(report) ==
    IF "report_date" \in report_doc.info
    THEN SetForAll(report, "personal_info", "report_date", <<"1","/","2","/","2","0","2","0">>)
    ELSE report

\* the text the summary patterns search
SummaryText ==
    IF report_doc.summary_line = "" THEN <<>>
    ELSE Chars(report_doc.summary_line) \o <<"\n">>

\* line 124
ExtractSummaryOfReport ==
    /\ rstep = "extract_summary"
    /\ credit_report' =
           [credit_report EXCEPT !.summary = extract_summary(@, SummaryText)]
    /\ rstep' = "extract_accounts_data"
    /\ UNCHANGED <<page_words, report_doc, raised>>
    /\ UNCHANGED notReport

\* what parsing the section at position i gives when it gives a record;
\* the record is known by the position of its section
AccountOfSection(i) == NewAccountData(ToStr(i))
CollectionOfSection(i) ==
    [agency |-> ToStr(i), transunion |-> <<>>, experian |-> <<>>,
     equifax |-> <<>>]

\* the record of the section at position i of a list of the kind
SectionRecord(kind, i) ==
    IF kind = "accounts" THEN AccountOfSection(i) ELSE CollectionOfSection(i)

\* a loop whose try encloses the whole loop: the first exception ends it
RECURSIVE ParseSectionsUntilRaise(_, _, _, _)
ParseSectionsUntilRaise(list, sections, kind, i) ==
    IF i > Len(sections) \/ sections[i] = "raises" THEN list
    ELSE ParseSectionsUntilRaise(
             IF sections[i] = "record"
             THEN Append(list, SectionRecord(kind, i)) ELSE list,
             sections, kind, i + 1)

\* the loops of lines 698-704 and 620-626 from section i on: a record is
\* appended, a falsy result is passed over, an exception is caught and
\* the loop goes on
RECURSIVE ParseSections(_, _, _, _)
ParseSections(list, sections, kind, i) ==
    IF i > Len(sections) THEN list
    ELSE ParseSections(
             IF sections[i] = "record"
             THEN Append(list, SectionRecord(kind, i)) ELSE list,
             sections, kind, i + 1)

\* lines 687-706
ExtractAccountsData ==
    /\ rstep = "extract_accounts_data"
    /\ credit_report' =
           [credit_report EXCEPT
               !.accounts = ParseSections(@, report_doc.account_sections,
                                          "accounts", 1)]
    /\ rstep' = "extract_collections"
    /\ UNCHANGED <<page_words, report_doc, raised>>
    /\ UNCHANGED notReport

\* lines 586-628
ExtractCollections ==
    /\ rstep = "extract_collections"
    /\ credit_report' =
           [credit_report EXCEPT
               !.collections = ParseSections(@, report_doc.collection_sections,
                                             "collections", 1)]
    /\ rstep' = "extract_inquiries"
    /\ UNCHANGED <<page_words, report_doc, raised>>
    /\ UNCHANGED notReport

\* the line 'Inquiries (2 years): 1 2 3', which the pattern of line 508
\* matches
InquiryCountsLine == "Inquiries (2 years): 1 2 3"

\* lines 578-582 for the rows of the section, each known by its bureau
InquiryRows(rows) ==
    [j \in 1..Len(rows) |->
        [creditor |-> ToStr(j), date |-> <<"0","1","/","0","2","/","2","0","2","0">>, bureau |-> rows[j]]]

\* lines 503-585
ExtractInquiries ==
    /\ rstep = "extract_inquiries"
    /\ LET counted ==
               IF report_doc.summary_line = InquiryCountsLine
               THEN SetKey(credit_report, "summary_data",
                           [inquiries_count |-> <<1, 2, 3>>])
               ELSE credit_report
       IN  credit_report' =
               IF report_doc.inquiries = None THEN counted
               ELSE SetKey(counted, "inquiries",
                           counted.inquiries
                               \o InquiryRows(report_doc.inquiries.list))
    /\ rstep' = "extract_public_information"
    /\ UNCHANGED <<page_words, report_doc, raised>>
    /\ UNCHANGED notReport

\* lines 966-1013: a section with a Type line and a Status line
ExtractPublicInformation ==
    /\ rstep = "extract_public_information"
    /\ credit_report' =
           IF ~report_doc.public_information THEN credit_report
           ELSE SetKey(credit_report, "public_information",
                       [b \in BureauSet |->
                           [type |-> <<"C","h","a","p","t","e","r"," ","7"," ","B","a","n","k","r","u","p","t","c","y">>,
                            status |-> <<"D","i","s","c","h","a","r","g","e","d">>]])
    /\ rstep' = "update_inquiry_counts"
    /\ UNCHANGED <<page_words, report_doc, raised>>
    /\ UNCHANGED notReport

\* the keys of counts (line 478)
AllCountKeys == BureauSet \cup {"unknown"}

\* the bureaus the counts are stored for (lines 471, 491, 496, 500)
CountedBureaus == BureauSet

\* lines 478-485
InquiryCounts(inquiries) ==
    [k \in AllCountKeys |->
        Cardinality({ j \in 1..Len(inquiries) :
            IF inquiries[j].bureau \in BureauSet
            THEN inquiries[j].bureau = k
            ELSE k = "unknown" })]

\* the fallback of line 497 taken for every report
InquiryTotalFor(report, b) == ToStr(Len(report.inquiries))

\* lines 487-501: the value stored as inquiries_2y under key b
InquiryCountFor(report, b) ==
    LET counts == InquiryCounts(report.inquiries)
    IN  IF counts["unknown"] > 0 /\ \A o \in BureauSet : counts[o] = 0
        THEN IF "summary_data" \in DOMAIN report
             THEN ToStr(report.summary_data.inquiries_count[
                            CHOOSE n \in 1..3 : Bureaus[n] = b])
             ELSE ToStr(Len(report.inquiries))
        ELSE ToStr(counts[b])

\* lines 469-501
UpdateInquiryCounts ==
    /\ rstep = "update_inquiry_counts"
    /\ credit_report' =
           IF \E b \in BureauSet : "inquiries_2y" \in DOMAIN credit_report.summary[b]
           THEN credit_report
           ELSE LET old == credit_report.summary
                IN  [credit_report EXCEPT
                        !.summary =
                            [b \in CountedBureaus |->
                                SetKey(IF b \in DOMAIN old THEN old[b] ELSE <<>>,
                                       "inquiries_2y",
                                       InquiryCountFor(credit_report, b))]
                            @@ old]
    /\ rstep' = "done"
    /\ UNCHANGED <<page_words, report_doc, raised>>
    /\ UNCHANGED notReport

---------------------------------------------------------------------------
(* The clustering of words into bureau columns (lines 169-198, 275-304,   *)
(* 340-379)                                                                *)

\* the column a word lies in: x0 about 100, about 300 or about 500
ColumnOf(x0) == IF x0 < 200 THEN 1 ELSE IF x0 < 400 THEN 2 ELSE 3

\* the sum of the x0 of the words carrying the label, from word i on
RECURSIVE SumX0(_, _, _, _)
SumX0(wordlist, labelling, c, i) ==
    IF i > Len(wordlist) THEN 0
    ELSE (IF labelling[i] = c THEN wordlist[i].x0 ELSE 0)
             + SumX0(wordlist, labelling, c, i + 1)

\* KMeans(n_clusters=3, random_state=42).fit(x) of scikit-learn, which is
\* not part of the source.  On three separated columns it is taken to find
\* the three columns; which column gets which cluster index is left open:
\* numbering maps the columns 1, 2, 3 to the indices 0, 1, 2.  labels_
\* gives the index of each word, cluster_centers_ the mean x0 per index.
KMeansFit(wordlist, numbering) ==
    LET labelling ==
            [i \in 1..Len(wordlist) |-> numbering[ColumnOf(wordlist[i].x0)]]
    IN  [ labels_ |-> labelling,
          cluster_centers_ |->
              [c \in 0..2 |->
                  SumX0(wordlist, labelling, c, 1)
                      \div Cardinality({i \in 1..Len(wordlist) : labelling[i] = c})] ]

\* the numberings of the three columns
Numberings ==
    { n \in [1..3 -> 0..2] : \A a, b \in 1..3 : a # b => n[a] # n[b] }

\* a mapping that takes the cluster index for the column
ClusterToBureauByIndex(centers) == [c \in 0..2 |-> Bureaus[c + 1]]

\* lines 175-180 and 280-285: the cluster indices sorted by center (sorted
\* is stable), the first is transunion, the second experian, the third
\* equifax
cluster_to_bureau(centers) ==
    [c \in 0..2 |->
        Bureaus[1 + Cardinality({ o \in 0..2 :
                      \/ centers[o] < centers[c]
                      \/ centers[o] = centers[c] /\ o < c })]]

\* line 171: the fit
FitKMeans ==
    /\ kstep = "fit"
    /\ \E numbering \in Numberings :
           kmeans' = KMeansFit(kmeans_words, numbering)
    /\ kstep' = "map"
    /\ UNCHANGED <<kblock, kmeans_words, word_bureau>>
    /\ UNCHANGED notCluster

\* the three blocks of extract_personal_info that are clustered
Blocks == {"name", "previous_address", "employer"}

\* an employer block without the override of line 372
BureauOfWordByCluster(block, word, label, mapping) == mapping[label]

\* lines 196, 302 and 372-376: the bureau of one word of a block; in the
\* employer block a word left of x0 = 280 is transunion whatever its
\* cluster
bureau_of_word(block, word, label, mapping) ==
    IF block = "employer" /\ word.x0 < 280
    THEN "transunion"
    ELSE mapping[label]

\* lines 175-198, 280-304 and 345-379: the bureau of each word
AssignBureaus ==
    /\ kstep = "map"
    /\ word_bureau' =
           [i \in 1..Len(kmeans_words) |->
               bureau_of_word(kblock, kmeans_words[i], kmeans.labels_[i],
                              cluster_to_bureau(kmeans.cluster_centers_))]
    /\ kstep' = "done"
    /\ UNCHANGED <<kblock, kmeans_words, kmeans>>
    /\ UNCHANGED notCluster

---------------------------------------------------------------------------
(* The sections of the text: extract_inquiries (lines 503-585) and         *)
(* extract_public_information (lines 966-1013).  The text is a sequence of *)
(* lines; a section body is the sequence of the lines it holds.            *)

\* the alternatives after 'Inquiries\s*' in the first header pattern
InquiryHeaderWords == { <<"c","r","e","d","i","t","o","r"," ","n","a","m","e">>, <<"d","a","t","e">>, <<"c","r","e","d","i","t"," ","b","u","r","e","a","u">> }

\* line 520: r'Inquiries\s*(?:Creditor Name|Date|Credit Bureau).*' matches
\* in the line, ignoring case; the match runs to the end of the line
HasInquiriesHeader(chars) ==
    LET low == Lower(chars)
    IN  \E i \in 1..Len(low) :
            /\ MatchesAt(<<"i","n","q","u","i","r","i","e","s">>, low, i)
            /\ \E w \in InquiryHeaderWords :
                   MatchesAt(w, low, SkipSpace(low, i + 9))

\* line 521: r'(?:Hard|Soft)?\s*Inquiries\s*' matches in the line
HasInquiries(chars) == Contains(<<"i","n","q","u","i","r","i","e","s">>, Lower(chars))

\* the names of the first end marker (line 530)
MajorSections ==
    { <<"a","c","c","o","u","n","t","s">>, <<"p","u","b","l","i","c"," ","r","e","c","o","r","d","s">>, <<"c","r","e","d","i","t"," ","s","c","o","r","e">>, <<"s","u","m","m","a","r","y">>,
      <<"r","e","p","o","r","t"," ","d","e","t","a","i","l","s">> }

\* 'page \d+ of \d+' stands at the start of the lower-cased text
PageFooterAt(low) ==
    /\ MatchesAt(<<"p","a","g","e"," ">>, low, 1)
    /\ RunLen(low, 6, "\\d") > 0
    /\ MatchesAt(<<" ","o","f"," ">>, low, 6 + RunLen(low, 6, "\\d"))
    /\ 10 + RunLen(low, 6, "\\d") <= Len(low)
    /\ IsDigit(low[10 + RunLen(low, 6, "\\d")])

\* lines 529-534: end marker k matches at the newline before the line
\* (every marker is '\n\s*' and a text, ignoring case)
EndMarkerAt(k, chars) ==
    LET low == Lower(LStrip(chars))
    IN  CASE k = 1 -> \E w \in MajorSections : MatchesAt(w, low, 1)
          [] k = 2 -> PageFooterAt(low)
          [] k = 3 -> MatchesAt(<<"c","r","e","d","i","t","o","r"," ","c","o","n","t","a","c","t","s">>, low, 1)
          [] k = 4 -> MatchesAt(<<"©"," ","m","y","f","r","e","e","s","c","o","r","e","n","o","w",".","c","o","m">>, low, 1)

EndMarkers == 1..4

\* [A-Z0-9\s\/#\-\.\,&]
InquiryCreditorChar(c) ==
    \/ \E j \in 1..26 : UpperCase[j] = c
    \/ IsDigit(c)
    \/ c \in {"/", "#", "-", ".", ",", "&"}

\* (TransUnion|Experian|Equifax) at the start of the word
BureauWord(word) ==
    IF MatchesAt(<<"T","r","a","n","s","U","n","i","o","n">>, word, 1) THEN "transunion"
    ELSE IF MatchesAt(<<"E","x","p","e","r","i","a","n">>, word, 1) THEN "experian"
    ELSE IF MatchesAt(<<"E","q","u","i","f","a","x">>, word, 1) THEN "equifax"
    ELSE "None"

\* the positions d at which the row pattern of line 566 can take the word
\* d of the line as the date: the words before it are the creditor and
\* the word after it starts with a bureau name
DateWords(words) ==
    { d \in 2..(Len(words) - 1) :
        /\ SlashDateShape(words[d], 4)
        /\ BureauWord(words[d + 1]) # "None"
        /\ \A j \in 1..(d - 1) : \A h \in 1..Len(words[j]) :
               InquiryCreditorChar(words[j][h]) }

\* line 562: the stripped line is not read as a row
SkippedRow(line) ==
    \/ Len(line) < 5
    \/ MatchesAt(<<"P","a","g","e"," ">>, line, 1) /\ Len(line) > 5 /\ IsDigit(line[6])
    \/ MatchesAt(<<"h","t","t","p",":","/","/">>, line, 1)
    \/ MatchesAt(<<"h","t","t","p","s",":","/","/">>, line, 1)

\* lines 561-582: the inquiry a line of the section gives, None if none
InquiryOfLine(chars) ==
    LET line == Strip(chars)
        words == Words(line)
    IN  IF SkippedRow(line)
        THEN None
        ELSE IF DateWords(words) = {} THEN None
        ELSE LET d == CHOOSE d \in DateWords(words) :
                          \A o \in DateWords(words) : o <= d
                 creditor == Join(<<" ">>, SubSeq(words, 1, d - 1))
             IN  IF Lower(creditor) \in
                        { <<"c","r","e","d","i","t","o","r"," ","n","a","m","e">>, <<"i","n","q","u","i","r","y">>, <<"i","n","q","u","i","r","i","e","s">> }
                 THEN None
                 ELSE [ creditor |-> creditor,
                        date |-> clean_value(words[d]),
                        bureau |-> BureauWord(words[d + 1]) ]

\* Collections|Inquiries|Accounts|End of Report (line 970)
PublicTerminators ==
    { <<"c","o","l","l","e","c","t","i","o","n","s">>, <<"i","n","q","u","i","r","i","e","s">>, <<"a","c","c","o","u","n","t","s">>, <<"e","n","d"," ","o","f"," ","r","e","p","o","r","t">> }

DocLines == Range(BodyLines) \cup Range(ListingLines)

\* per line, what the patterns of the section finders find in it
DocInfo ==
    [line \in DocLines |->
        LET chars == Chars(line)
        IN  [ inquiries_header |-> HasInquiriesHeader(chars),
              inquiries |-> HasInquiries(chars),
              end_markers |-> { k \in EndMarkers : EndMarkerAt(k, chars) },
              inquiry |-> InquiryOfLine(chars),
              public_anchor |->
                  Contains(<<"p","u","b","l","i","c"," ","i","n","f","o","r","m","a","t","i","o","n">>, Lower(chars)),
              public_terminator |->
                  \E w \in PublicTerminators : Contains(w, Lower(chars)) ]]

\* the first index in from..Len(lines) whose line satisfies the test, 0 if
\* there is none
FirstLine(lines, from, Test(_)) ==
    IF \E j \in from..Len(lines) : Test(lines[j])
    THEN CHOOSE j \in from..Len(lines) :
             /\ Test(lines[j])
             /\ \A h \in from..(j - 1) : ~Test(lines[h])
    ELSE 0

\* lines 536-541: the markers are tried in the order of the list and the
\* first marker that matches anywhere after the start decides the end: the
\* first line it matches; 0 if no marker matches
EndMarkerLine(lines, from) ==
    IF \A k \in EndMarkers : \A j \in from..Len(lines) :
           k \notin DocInfo[lines[j]].end_markers
    THEN 0
    ELSE LET k == CHOOSE k \in EndMarkers :
                      /\ \E j \in from..Len(lines) :
                             k \in DocInfo[lines[j]].end_markers
                      /\ \A o \in 1..(k - 1) : \A j \in from..Len(lines) :
                             o \notin DocInfo[lines[j]].end_markers
         IN  FirstLine(lines, from, LAMBDA l : k \in DocInfo[l].end_markers)

\* lines start..end-1 of the text, to the last line if end = 0
Body(lines, start, end) ==
    SubSeq(lines, start, IF end = 0 THEN Len(lines) ELSE end - 1)

\* lines 524-544: the body of the inquiries section.  With the first
\* header pattern the body starts after the header line and a marker can
\* match the line after it; with the second pattern the match takes the
\* newline after 'Inquiries' (in the lines of the model the word ends its
\* line), so the body starts with the next line and the markers, which
\* begin with a newline, can match from the line after that.
FindInquiriesSection(lines) ==
    LET h1 == FirstLine(lines, 1, LAMBDA l : DocInfo[l].inquiries_header)
        h2 == FirstLine(lines, 1, LAMBDA l : DocInfo[l].inquiries)
    IN  IF h1 # 0 THEN Body(lines, h1 + 1, EndMarkerLine(lines, h1 + 1))
        ELSE IF h2 # 0 THEN Body(lines, h2 + 1, EndMarkerLine(lines, h2 + 2))
        ELSE <<>>

\* the inquiries of the lines of the body, in their order
RECURSIVE InquiriesOfLines(_)
InquiriesOfLines(body) ==
    IF body = <<>> THEN <<>>
    ELSE (IF DocInfo[Head(body)].inquiry = None THEN <<>>
          ELSE <<DocInfo[Head(body)].inquiry>>) \o InquiriesOfLines(Tail(body))

\* lines 503-585.  No line of the model holds the counts of line 508 or
\* the header of line 548, so an empty body ends the function at line 554.
ExtractInquiriesOfText ==
    /\ dstep = "extract_inquiries"
    /\ LET body == FindInquiriesSection(doc_lines)
       IN  /\ inquiries_section' = IF body = <<>> THEN None ELSE PyList(body)
           /\ credit_report' =
                  [credit_report EXCEPT !.inquiries = @ \o InquiriesOfLines(body)]
    /\ dstep' = "extract_public_information"
    /\ UNCHANGED <<doc_lines, public_section, creditor_indices,
                   account_sections>>
    /\ UNCHANGED <<page_words, report_doc, rstep, raised>>
    /\ UNCHANGED notDoc

\* line 970: the lazy group ends at the first terminator after the first
\* 'Public Information'; without a terminator the pattern does not match
FindPublicSection(lines) ==
    LET a == FirstLine(lines, 1, LAMBDA l : DocInfo[l].public_anchor)
        t == IF a = 0 THEN 0
             ELSE FirstLine(lines, a + 1, LAMBDA l : DocInfo[l].public_terminator)
    IN  IF a = 0 \/ t = 0 THEN None ELSE PyList(Body(lines, a + 1, t))

\* lines 966-1013.  No line of the model is a Type, Status, Date Filed or
\* Reference# line: a section that is found resets the three records.
ExtractPublicInformationOfText ==
    /\ dstep = "extract_public_information"
    /\ public_section' = FindPublicSection(doc_lines)
    /\ credit_report' =
           IF public_section' = None THEN credit_report
           ELSE [credit_report EXCEPT
                    !.public_information = [b \in BureauSet |-> <<>>]]
    /\ dstep' = "done"
    /\ UNCHANGED <<doc_lines, inquiries_section, creditor_indices,
                   account_sections>>
    /\ UNCHANGED <<page_words, report_doc, rstep, raised>>
    /\ UNCHANGED notDoc

---------------------------------------------------------------------------
(* The account listings: identify_account_sections (lines 708-779) and     *)
(* extract_accounts_data (lines 687-706).  Line indices count from 0 as in *)
(* the source; line i of the text is doc_lines[i + 1].                     *)

\* the literals stand in s from s[i] on, separated by runs of whitespace
\* (the \s+ of the patterns)
RECURSIVE TokensAt(_, _, _)
TokensAt(tokens, s, i) ==
    /\ MatchesAt(Head(tokens), s, i)
    /\ \/ Tail(tokens) = <<>>
       \/ /\ i + Len(Head(tokens)) <= Len(s)
          /\ IsSpace(s[i + Len(Head(tokens))])
          /\ TokensAt(Tail(tokens), s, SkipSpace(s, i + Len(Head(tokens))))

\* page\s+\d+\s+of\s+\d+ stands in s at s[i]
PageOfAt(s, i) ==
    LET d == SkipSpace(s, i + 4)
        o == SkipSpace(s, d + RunLen(s, d, "\\d"))
        e == SkipSpace(s, o + 2)
    IN  /\ MatchesAt(<<"p","a","g","e">>, s, i)
        /\ d > i + 4
        /\ RunLen(s, d, "\\d") > 0
        /\ o > d + RunLen(s, d, "\\d")
        /\ MatchesAt(<<"o","f">>, s, o)
        /\ e > o + 2
        /\ e <= Len(s) /\ IsDigit(s[e])

\* the alternatives of ignore_patterns that are literals separated by \s+
\* (lines 715-725; the first one holds the sign of a registered mark)
IgnoredPhrases ==
    { << <<"t","r","a","n","s","u","n","i","o","n","®">>, <<"e","x","p","e","r","i","a","n","®">>, <<"e","q","u","i","f","a","x","®">> >>,
      << <<"a","c","c","o","u","n","t">>, <<"#">> >>,
      << <<"h","i","g","h">>, <<"b","a","l","a","n","c","e">> >>,
      << <<"c","o","l","l","e","c","t","i","o","n">> >>,
      << <<"p","a","s","t">>, <<"d","u","e">>, <<"a","m","o","u","n","t">> >>,
      << <<"t","w","o","-","y","e","a","r">>, <<"p","a","y","m","e","n","t">>, <<"h","i","s","t","o","r","y">> >>,
      << <<"i","n","q","u","i","r","i","e","s">> >>,
      << <<"h","t","t","p",":","/","/">> >>,
      << <<"h","t","t","p","s",":","/","/">> >>,
      << <<"d","a","y","s"," ","l","a","t","e">> >>,
      << <<"c","r","e","d","i","t","o","r"," ","c","o","n","t","a","c","t","s">> >> }

\* ignore_regex.search(line), line 734
Ignored(line) ==
    LET low == Lower(line)
    IN  \E i \in 1..Len(low) :
            \/ \E p \in IgnoredPhrases : TokensAt(p, low, i)
            \/ PageOfAt(low, i)

\* [A-Z0-9\s&.,\'"-/]: in the class "-/ is the range from " to /
ListingCreditorChar(c) ==
    \/ \E j \in 1..26 : UpperCase[j] = c
    \/ IsDigit(c)
    \/ IsSpace(c)
    \/ c \in {"\"", "#", "$", "%", "&", "'", "(", ")", "*", "+", ",", "-",
              ".", "/"}

\* lines 739-743 for the stripped line: upper case, no digit, under 40
\* characters, neither a page footer nor a URL
LooksLikeCreditor(line) ==
    /\ Len(line) >= 2
    /\ \E j \in 1..26 : UpperCase[j] = line[1]
    /\ \A j \in 2..Len(line) : ListingCreditorChar(line[j])
    /\ Len(line) < 40
    /\ \A j \in 1..Len(line) : ~IsDigit(line[j])
    /\ ~MatchesAt(<<"P","a","g","e">>, line, 1)
    /\ ~MatchesAt(<<"h","t","t","p">>, line, 1)

\* ^[A-Z][A-Z\s]+(?:INQUIRIES|SUMMARY|REPORT|COLLECTION)
MajorHeaderAt(line) ==
    \E p \in 3..Len(line) :
        /\ \E j \in 1..26 : UpperCase[j] = line[1]
        /\ \A h \in 2..(p - 1) :
               IsSpace(line[h]) \/ \E j \in 1..26 : UpperCase[j] = line[h]
        /\ \E w \in { <<"I","N","Q","U","I","R","I","E","S">>, <<"S","U","M","M","A","R","Y">>, <<"R","E","P","O","R","T">>, <<"C","O","L","L","E","C","T","I","O","N">> } :
               MatchesAt(w, line, p)

\* ^Page \d+ of \d+
PageLineAt(line) ==
    /\ MatchesAt(<<"P","a","g","e"," ">>, line, 1)
    /\ RunLen(line, 6, "\\d") > 0
    /\ MatchesAt(<<" ","o","f"," ">>, line, 6 + RunLen(line, 6, "\\d"))
    /\ 10 + RunLen(line, 6, "\\d") <= Len(line)
    /\ IsDigit(line[10 + RunLen(line, 6, "\\d")])

\* lines 767-770 for the stripped line
EndOfListing(line) ==
    \/ PageLineAt(line)
    \/ MatchesAt(<<"h","t","t","p",":","/","/">>, line, 1)
    \/ MatchesAt(<<"h","t","t","p","s",":","/","/">>, line, 1)
    \/ MajorHeaderAt(line)
    \/ MatchesAt(<<"C","r","e","d","i","t","o","r"," ","C","o","n","t","a","c","t","s">>, line, 1)

\* per line, what identify_account_sections finds in it
ListingInfo ==
    [line \in Range(ListingLines) |->
        LET stripped == Strip(Chars(line))
        IN  [ skipped |-> stripped = <<>> \/ Ignored(stripped),
              creditor |-> LooksLikeCreditor(stripped),
              lower |-> Lower(Chars(line)),
              end_of_listing |-> EndOfListing(stripped) ]]

\* line 746: ' '.join(lines[i+1:i+10]).lower()
next_text(lines, i) ==
    Join(<<" ">>,
         [j \in 1..(Min(i + 10, Len(lines)) - (i + 1)) |->
             ListingInfo[lines[i + 1 + j]].lower])

\* lines 749-750
FollowedByAccount(lines, i) ==
    /\ \/ Contains(<<"a","c","c","o","u","n","t"," ","#">>, next_text(lines, i))
       \/ Contains(<<"h","i","g","h"," ","b","a","l","a","n","c","e">>, next_text(lines, i))
    /\ \E term \in { <<"b","a","l","a","n","c","e">>, <<"o","p","e","n","e","d">>, <<"s","t","a","t","u","s">>, <<"p","a","y","m","e","n","t">> } :
           Contains(term, next_text(lines, i))

\* lines 729-754: the indices of the creditor lines; the loop stops five
\* lines before the end of the text
IsCreditorIndex(lines, i) ==
    /\ i < Len(lines) - 5
    /\ ~ListingInfo[lines[i + 1]].skipped
    /\ ListingInfo[lines[i + 1]].creditor
    /\ FollowedByAccount(lines, i)

\* the indices in ascending order
RECURSIVE CreditorIndicesFrom(_, _)
CreditorIndicesFrom(lines, i) ==
    IF i >= Len(lines) - 5 THEN <<>>
    ELSE (IF IsCreditorIndex(lines, i) THEN <<i>> ELSE <<>>)
             \o CreditorIndicesFrom(lines, i + 1)

\* an end that is the end of the text for every section
EndAtEndOfText(lines, indices, idx) == Len(lines)

\* lines 759-772: the end of section idx: the next creditor line, and for
\* the last section the first end-of-listing line among the lines
\* start_idx + 10 .. start_idx + 99, the end of the text if there is none
end_idx(lines, indices, idx) ==
    LET start_idx == indices[idx]
        markers == { j \in (start_idx + 10)..(Min(start_idx + 100, Len(lines)) - 1) :
                       ListingInfo[lines[j + 1]].end_of_listing }
    IN  IF idx < Len(indices) THEN indices[idx + 1]
        ELSE IF markers = {} THEN Len(lines)
        ELSE Nth(markers, 1)

\* lines 757-777: the sections, each with the range it was cut from (the
\* source keeps the text, '\n'.join(lines[start_idx:end_idx]))
SectionsOf(lines, indices) ==
    [idx \in 1..Len(indices) |->
        [ start_idx |-> indices[idx],
          end_idx |-> end_idx(lines, indices, idx),
          lines |-> SubSeq(lines, indices[idx] + 1,
                           end_idx(lines, indices, idx)) ]]

\* lines 695 and 708-779
IdentifyAccountSections ==
    /\ dstep = "identify_account_sections"
    /\ creditor_indices' = CreditorIndicesFrom(doc_lines, 0)
    /\ account_sections' = SectionsOf(doc_lines, creditor_indices')
    /\ dstep' = "parse_sections"
    /\ UNCHANGED <<doc_lines, inquiries_section, public_section>>
    /\ UNCHANGED reportVars
    /\ UNCHANGED notDoc

\* parse_account on a section without a payment-history block (lines
\* 783-847 and 955-962)
AccountOfLines(lines) ==
    ApplyPatterns(
        NewAccountData(Strip(Join(<<" ">>, creditor_lines(lines, 1)))),
        lines, 1)

\* lines 698-706: parse_account returns a record for every section and
\* raises nothing on these lines, so every section adds its account
ParseAccountSections ==
    /\ dstep = "parse_sections"
    /\ credit_report' =
           [credit_report EXCEPT
               !.accounts = @ \o [k \in 1..Len(account_sections) |->
                                     AccountOfLines(account_sections[k].lines)]]
    /\ dstep' = "done"
    /\ UNCHANGED <<doc_lines, inquiries_section, public_section,
                   creditor_indices, account_sections>>
    /\ UNCHANGED <<page_words, report_doc, rstep, raised>>
    /\ UNCHANGED notDoc

---------------------------------------------------------------------------
(* extract_personal_info: the blocks that are clustered into bureau        *)
(* columns (lines 169-213, 275-315, 340-425)                               *)

\* the bureau of each word of a clustered block (lines 171-196, 276-302,
\* 341-376)
BlockBureaus(block, wordlist, numbering) ==
    LET fit == KMeansFit(wordlist, numbering)
        mapping == cluster_to_bureau(fit.cluster_centers_)
        bureau_of_label == << mapping[0], mapping[1], mapping[2] >>
    IN  [i \in 1..Len(wordlist) |->
            bureau_of_word(block, wordlist[i], fit.labels_[i],
                           [c \in 0..2 |-> bureau_of_label[c + 1]])]

\* align_name_top and get_aligned_top (lines 189-193, 295-299, 359-363):
\* the first top of the lines so far that lies within 2.5 of the word's
\* top, else the word's top
AlignedTop(top, groups) ==
    LET near(k) == 2 * (IF groups[k].top > top THEN groups[k].top - top
                        ELSE top - groups[k].top) <= 5
    IN  IF \E k \in 1..Len(groups) : near(k)
        THEN groups[CHOOSE k \in 1..Len(groups) :
                        near(k) /\ \A h \in 1..(k - 1) : ~near(h)].top
        ELSE top

\* lines 195-198, 301-304 and 365-379 for one bureau: its words from word i
\* on are added to the lines so far, each to the line of its aligned top
RECURSIVE GroupedLines(_, _, _, _, _)
GroupedLines(wordlist, bureaus, b, i, groups) ==
    IF i > Len(wordlist) THEN groups
    ELSE IF bureaus[i] # b
    THEN GroupedLines(wordlist, bureaus, b, i + 1, groups)
    ELSE LET top == AlignedTop(wordlist[i].top, groups)
             next ==
                 IF \E k \in 1..Len(groups) : groups[k].top = top
                 THEN [k \in 1..Len(groups) |->
                          IF groups[k].top = top
                          THEN [groups[k] EXCEPT
                                   !.word_group = Append(@, wordlist[i])]
                          ELSE groups[k]]
                 ELSE Append(groups, [top |-> top, word_group |-> <<wordlist[i]>>])
         IN  GroupedLines(wordlist, bureaus, b, i + 1, next)

\* lines 202-207, 308-312 and 393-400: the lines of a bureau from top to
\* bottom, each the texts of its words from left to right joined by a
\* blank; the words of one line differ in x0 on the pages considered
LinesOfBureau(wordlist, bureaus, b) ==
    LET sorted_lines ==
            SortSeq(GroupedLines(wordlist, bureaus, b, 1, <<>>),
                    LAMBDA g, h : g.top < h.top)
    IN  [k \in 1..Len(sorted_lines) |->
            LET sorted_words ==
                    SortSeq(sorted_lines[k].word_group,
                            LAMBDA v, w : v.x0 < w.x0)
            IN  Join(<<" ">>, [j \in 1..Len(sorted_words) |-> sorted_words[j].text])]

\* lines 209-211
final_name(all_words) ==
    LET joined == Strip(Join(<<" ", " ">>, all_words))
    IN  IF joined = <<>> THEN <<"N","/","A">> ELSE joined

\* line 313
full_address(address_lines) == Join(<<" ", " ">>, address_lines)

\* the length of the match of \d{1,2}/\d{1,2}/\d{2,4} at s[i], 0 if there
\* is none
DateLenAt(s, i) ==
    LET digits(from, n) ==
            /\ from + n - 1 <= Len(s)
            /\ \A j \in from..(from + n - 1) : IsDigit(s[j])
        slash(at) == at <= Len(s) /\ s[at] = "/"
        shapes ==
            { abc \in (1..2) \X (1..2) \X (2..4) :
                /\ digits(i, abc[1])
                /\ slash(i + abc[1])
                /\ digits(i + abc[1] + 1, abc[2])
                /\ slash(i + abc[1] + abc[2] + 1)
                /\ digits(i + abc[1] + abc[2] + 2, abc[3]) }
    IN  IF shapes = {} THEN 0
        ELSE LET longest ==
                     CHOOSE abc \in shapes :
                         \A o \in shapes : o[3] <= abc[3]
             IN  longest[1] + longest[2] + longest[3] + 2

\* lines 382-383: re.fullmatch on the stripped text
is_date_line(text) ==
    LET s == Strip(text) IN s # <<>> /\ DateLenAt(s, 1) = Len(s)

\* lines 385-386
is_date_updated_tag(text) == Contains(<<"d","a","t","e"," ","u","p","d","a","t","e","d">>, Lower(text))

\* lines 388-389: two letters in a row
is_valid_employer_name(text) ==
    \E i \in 1..(Len(text) - 1) : IsAlpha(text[i]) /\ IsAlpha(text[i + 1])

\* line 406: the first date of the line, <<>> if it holds none
FirstDateOf(line) ==
    IF \E i \in 1..Len(line) : DateLenAt(line, i) > 0
    THEN LET i == CHOOSE i \in 1..Len(line) :
                      /\ DateLenAt(line, i) > 0
                      /\ \A h \in 1..(i - 1) : DateLenAt(line, h) = 0
         IN  SubSeq(line, i, i + DateLenAt(line, i) - 1)
    ELSE <<>>

\* lines 399-419 from line k on; last_index is a position of full_lines,
\* 0 where the source has -1
RECURSIVE EmployerLines(_, _, _, _, _)
EmployerLines(lines, k, full_lines, last_index, last_employer_line) ==
    IF k > Len(lines) THEN full_lines
    ELSE LET line == Strip(lines[k])
         IN  IF line = <<>>
             THEN EmployerLines(lines, k + 1, full_lines, last_index,
                                last_employer_line)
             ELSE IF is_date_updated_tag(line) /\ last_index # 0
             THEN EmployerLines(lines, k + 1,
                      IF FirstDateOf(line) = <<>> THEN full_lines
                      ELSE [full_lines EXCEPT
                               ![last_index] = @ \o <<" ", " ">> \o FirstDateOf(line)],
                      last_index, last_employer_line)
             ELSE IF is_date_line(line)
             THEN EmployerLines(lines, k + 1, full_lines, last_index,
                                last_employer_line)
             ELSE IF is_valid_employer_name(line) /\ line # last_employer_line
             THEN EmployerLines(lines, k + 1, Append(full_lines, line),
                                Len(full_lines) + 1, line)
             ELSE EmployerLines(lines, k + 1, full_lines, last_index,
                                last_employer_line)

\* the character U+2013 (en dash) of the pattern of line 422
EnDash == "U+2013"

\* lines 421-423
full_employer_block(lines) ==
    LET joined == Strip(Join(<<" ", " ">>, EmployerLines(lines, 1, <<>>, 0, <<>>)))
    IN  IF \A i \in 1..Len(joined) : joined[i] \in {"-", EnDash, "/"} \/ IsSpace(joined[i])
        THEN <<"N","/","A">>
        ELSE joined

\* lines 166-213: the names of a name block of 6 words or more
Names(wordlist, numbering) ==
    LET bureaus == BlockBureaus("name", wordlist, numbering) \o <<>>
    IN  [b \in BureauSet |-> final_name(LinesOfBureau(wordlist, bureaus, b))]

\* lines 275-315
PreviousAddresses(wordlist, numbering) ==
    LET bureaus == BlockBureaus("previous_address", wordlist, numbering) \o <<>>
    IN  [b \in BureauSet |-> full_address(LinesOfBureau(wordlist, bureaus, b))]

\* lines 321, 323
EmployerKeys == { <<"e","m","p","l","o","y","e","r">> }
EmployerEndKeys == { <<"c","o","n","s","u","m","e","r">> }

\* lines 317-329: both ends of the employer block were found
EmployerLocated(words) ==
    AnchorEnd(words, AnchorStart(words, EmployerKeys), EmployerEndKeys) > 0

\* lines 331-334
emp_words(words) ==
    LET emp_start == words[AnchorStart(words, EmployerKeys)].top - 1
        emp_end ==
            words[AnchorEnd(words, AnchorStart(words, EmployerKeys),
                            EmployerEndKeys)].top
    IN  SelectSeq(words, LAMBDA w :
            /\ emp_start <= w.top
            /\ w.top < emp_end
            /\ Lower(w.text) # <<"e","m","p","l","o","y","e","r">>)

\* lines 340-425
Employers(wordlist, numbering) ==
    LET bureaus == BlockBureaus("employer", wordlist, numbering) \o <<>>
    IN  [b \in BureauSet |->
            full_employer_block(LinesOfBureau(wordlist, bureaus, b))]

\* self.credit_report["personal_info"][bureau][key] = values[bureau] for
\* every bureau (lines 213, 314, 425)
StoreForEach(report, key, values) ==
    [report EXCEPT !.personal_info =
        [b \in BureauSet |-> SetKey(@[b], key, values[b])]]

\* the blocks of the page that are clustered: the name block with 6 words or
\* more (line 166), the previous-address block with 9 words or more (line
\* 271) and, where line 273 did not return, the employer block with 9 words
\* or more (lines 327-338)
Clustered(words) ==
    [ name |-> NameLocated(words) /\ Len(name_words(words)) >= 6,
      previous_address |->
          ~PreviousAddressRaises(words) /\ Len(addr_words(words)) >= 9,
      employer |->
          /\ ~PreviousAddressRaises(words)
          /\ Len(addr_words(words)) >= 9
          /\ EmployerLocated(words)
          /\ Len(emp_words(words)) >= 9 ]

\* what a clustered block gives under each numbering the fit may choose
Outcomes(Block(_, _), wordlist) ==
    { Block(wordlist, numbering) : numbering \in Numberings }

\* lines 131-426
ExtractPersonalInfoFromPage ==
    /\ rstep = "extract_personal_info"
    /\ \E clustered \in {Clustered(page_words)},
          address_raises \in {PreviousAddressRaises(page_words)} :
       \E names \in IF clustered.name
                     THEN Outcomes(Names, name_words(page_words)) ELSE {None},
          addresses \in IF clustered.previous_address
                         THEN Outcomes(PreviousAddresses, addr_words(page_words))
                         ELSE {None},
          employers \in IF clustered.employer
                         THEN Outcomes(Employers, emp_words(page_words))
                         ELSE {None} :
       \E info \in {WithReportDate(WithCurrentAddress(WithBirthYear(
                        IF clustered.name
                        THEN StoreForEach(
                                 [credit_report EXCEPT
                                     !.personal_info = [b \in BureauSet |-> <<>>]],
                                 "name", names)
                        ELSE [credit_report EXCEPT
                                 !.personal_info = [b \in BureauSet |-> <<>>]])))} :
           IF address_raises
           THEN /\ credit_report' = info
                /\ rstep' = "raised"
                /\ raised' = "TypeError"
           ELSE /\ credit_report' =
                       LET addressed ==
                               IF clustered.previous_address
                               THEN StoreForEach(info, "previous_address", addresses)
                               ELSE info
                       IN  IF clustered.employer
                           THEN StoreForEach(addressed, "employer", employers)
                           ELSE addressed
                /\ rstep' = "extract_summary"
                /\ UNCHANGED raised
    /\ UNCHANGED <<page_words, report_doc>>
    /\ UNCHANGED notReport
---------------------------------------------------------------------------
(* process, extract_lines_from_pdf and parse_credit_report                 *)
(*                                                                         *)
(* The PDF file is known by what the two libraries do with it: whether the *)
(* path is set and the file exists, whether pdfplumber opens it, how many  *)
(* pages it has and how much text each library extracts from it.           *)

\* lines 94 and 110: text of at most this many characters is too little
MinTextLength == 1000

TextOfLength(n) == [length |-> n]

\* line 55 onwards needs a path (lines 46-47)
ProcessStart ==
    /\ step = "start"
    /\ IF document.has_path
       THEN step' = "pdfplumber" /\ UNCHANGED result
       ELSE step' = "raised" /\ result' = "ValueError"
    /\ UNCHANGED <<caller, response, document, pdf_text, page, extracted, written>>
    /\ UNCHANGED notProcess

\* lines 78-98: a missing file ends the extraction; text that is long enough
\* is returned with the first page; everything else leads to PyPDF2
ExtractWithPdfplumber ==
    /\ step = "pdfplumber"
    /\ IF ~document.exists
       THEN /\ pdf_text' = None
            /\ page' = "None"
            /\ step' = "extracted"
       ELSE IF /\ document.pdfplumber = "opens"
               /\ document.pdfplumber_length > MinTextLength
               /\ document.pages > 0
       THEN /\ pdf_text' = TextOfLength(document.pdfplumber_length)
            /\ page' = "first_page"
            /\ step' = "extracted"
       ELSE /\ step' = "PyPDF2"
            /\ UNCHANGED <<pdf_text, page>>
    /\ UNCHANGED <<caller, response, document, extracted, written, result>>
    /\ UNCHANGED notProcess

\* lines 100-118: the fallback returns text without a page object
ExtractWithPyPDF2 ==
    /\ step = "PyPDF2"
    /\ IF document.PyPDF2 = "reads" /\ document.PyPDF2_length > MinTextLength
       THEN pdf_text' = TextOfLength(document.PyPDF2_length)
       ELSE pdf_text' = None
    /\ page' = "None"
    /\ step' = "extracted"
    /\ UNCHANGED <<caller, response, document, extracted, written, result>>
    /\ UNCHANGED notProcess

\* lines 56-58
CheckText ==
    /\ step = "extracted"
    /\ IF pdf_text = None
       THEN step' = "returned" /\ result' = "False"
       ELSE step' = "extract_personal_info" /\ UNCHANGED result
    /\ UNCHANGED <<caller, response, document, pdf_text, page, extracted, written>>
    /\ UNCHANGED notProcess

\* lines 123 and 139-140: extract_personal_info starts by calling
\* page.extract_words(); on None that is an AttributeError, which neither
\* parse_credit_report nor process catches.  Lines 265-269 raise TypeError
\* on a page where the previous-address block has no anchor
ExtractPersonalInfo ==
    /\ step = "extract_personal_info"
    /\ IF page = "None"
       THEN /\ step' = "raised"
            /\ result' = "AttributeError"
            /\ UNCHANGED extracted
       ELSE IF document.previous_address = "missing"
       THEN /\ step' = "raised"
            /\ result' = "TypeError"
            /\ UNCHANGED extracted
       ELSE /\ step' = "extract_summary"
            /\ extracted' = Append(extracted, "personal_info")
            /\ UNCHANGED result
    /\ UNCHANGED <<caller, response, document, pdf_text, page, written>>
    /\ UNCHANGED notProcess

\* one of the later calls of parse_credit_report (lines 124-129)
ExtractionStep(this, section, next) ==
    /\ step = this
    /\ extracted' = Append(extracted, section)
    /\ step' = next
    /\ UNCHANGED <<caller, response, document, pdf_text, page, written, result>>
    /\ UNCHANGED notProcess

SummaryStep == ExtractionStep("extract_summary", "summary", "extract_accounts_data")
AccountsStep == ExtractionStep("extract_accounts_data", "accounts", "extract_collections")
CollectionsStep == ExtractionStep("extract_collections", "collections", "extract_inquiries")
InquiriesStep ==
    ExtractionStep("extract_inquiries", "inquiries", "extract_public_information")
PublicInformationStep ==
    ExtractionStep("extract_public_information", "public_information",
                   "update_inquiry_counts")
InquiryCountsStep ==
    ExtractionStep("update_inquiry_counts", "inquiry_counts", "save_json")

\* line 66
SaveJson ==
    /\ step = "save_json"
    /\ written' = written \cup {"credit_report.json"}
    /\ step' = "create_excel"
    /\ UNCHANGED <<caller, response, document, pdf_text, page, extracted, result>>
    /\ UNCHANGED notProcess

\* lines 70-74
CreateExcel ==
    /\ step = "create_excel"
    /\ written' = written \cup {"credit_report.xlsx"}
    /\ step' = "returned"
    /\ result' = "True"
    /\ UNCHANGED <<caller, response, document, pdf_text, page, extracted>>
    /\ UNCHANGED notProcess


(* The entry points above process *)

\* process has ended, by return or by exception, and its caller has not
\* answered yet
ProcessEnded == step \in {"returned", "raised"} /\ response = "None"

\* a direct call of process: the caller gets the return value or the
\* exception
ProcessCall ==
    /\ caller = "process"
    /\ ProcessEnded
    /\ response' = IF step = "raised" THEN "raised" ELSE result
    /\ UNCHANGED <<caller, document, step, pdf_text, page, extracted, written,
                   result>>
    /\ UNCHANGED notProcess

\* parser_wrapper.process_credit_report (lines 3-8): the return value of
\* process is dropped and processor.credit_report is returned
WrapperCall ==
    /\ caller = "process_credit_report"
    /\ ProcessEnded
    /\ response' = IF step = "raised" THEN "raised" ELSE "credit_report"
    /\ UNCHANGED <<caller, document, step, pdf_text, page, extracted, written,
                   result>>
    /\ UNCHANGED notProcess

\* get_report of main.py (lines 34-39): status success with
\* processor.credit_report unless process raised
MainGetReport ==
    /\ caller = "main.get_report"
    /\ ProcessEnded
    /\ response' = IF step = "raised" THEN "error" ELSE "success"
    /\ UNCHANGED <<caller, document, step, pdf_text, page, extracted, written,
                   result>>
    /\ UNCHANGED notProcess

\* get_report of reports/views.py (lines 30-37), which calls the wrapper
ViewsGetReport ==
    /\ caller = "views.get_report"
    /\ ProcessEnded
    /\ response' = IF step = "raised" THEN "error" ELSE "success"
    /\ UNCHANGED <<caller, document, step, pdf_text, page, extracted, written,
                   result>>
    /\ UNCHANGED notProcess

---------------------------------------------------------------------------
(* extract_lines_from_pdf statement by statement: the two with-blocks      *)
(* and the calls made on the pages (lines 84-118, 139-140)                 *)

\* no with-block has been entered
NoHandle == [pdfplumber |-> "unopened", file |-> "unopened"]

\* lines 78-87: a missing file ends the extraction; pdfplumber.open either
\* raises, which leads to PyPDF2, or gives the handle the with-block holds
OpenPdfplumber ==
    /\ step = "pdfplumber"
    /\ IF ~document.exists
       THEN /\ pdf_text' = None
            /\ page' = "None"
            /\ step' = "extracted"
            /\ UNCHANGED handle
       ELSE IF document.pdfplumber = "raises"
       THEN /\ step' = "PyPDF2"
            /\ UNCHANGED <<pdf_text, page, handle>>
       ELSE /\ handle' = [handle EXCEPT !.pdfplumber = "open"]
            /\ step' = "pdfplumber_pages"
            /\ UNCHANGED <<pdf_text, page>>
    /\ pages_read' = 0
    /\ UNCHANGED <<caller, response, document, extracted, written, result>>
    /\ UNCHANGED <<cleanVars, accountVars, fanoutVars, reportVars, clusterVars,
                   docVars>>

\* lines 89-92: page.extract_text() on the next page, inside the
\* with-block; an exception leaves the block, which closes the handle, and
\* is caught at line 97
ExtractPdfplumberPage ==
    /\ step = "pdfplumber_pages"
    /\ pages_read < document.pages
    /\ IF document.pdfplumber = "page_raises"
       THEN /\ handle' = [handle EXCEPT !.pdfplumber = "released"]
            /\ step' = "PyPDF2"
            /\ UNCHANGED pages_read
       ELSE /\ pages_read' = pages_read + 1
            /\ UNCHANGED <<handle, step>>
    /\ UNCHANGED <<caller, response, document, pdf_text, page, extracted, written,
                   result>>
    /\ UNCHANGED <<cleanVars, accountVars, fanoutVars, reportVars, clusterVars,
                   docVars>>

\* lines 85 and 94-98: the loop is over, the with-block closes the handle;
\* text that is long enough is returned with the first page
LeavePdfplumber ==
    /\ step = "pdfplumber_pages"
    /\ pages_read = document.pages
    /\ handle' = [handle EXCEPT !.pdfplumber = "released"]
    /\ IF document.pdfplumber_length > MinTextLength /\ document.pages > 0
       THEN /\ pdf_text' = TextOfLength(document.pdfplumber_length)
            /\ page' = "first_page"
            /\ step' = "extracted"
       ELSE /\ step' = "PyPDF2"
            /\ UNCHANGED <<pdf_text, page>>
    /\ UNCHANGED pages_read
    /\ UNCHANGED <<caller, response, document, extracted, written, result>>
    /\ UNCHANGED <<cleanVars, accountVars, fanoutVars, reportVars, clusterVars,
                   docVars>>

\* lines 101-104: the file is opened; PdfReader raises inside the
\* with-block or gives the pages
OpenFile ==
    /\ step = "PyPDF2"
    /\ IF document.PyPDF2 = "raises"
       THEN /\ handle' = [handle EXCEPT !.file = "released"]
            /\ pdf_text' = None
            /\ page' = "None"
            /\ step' = "extracted"
       ELSE /\ handle' = [handle EXCEPT !.file = "open"]
            /\ step' = "PyPDF2_pages"
            /\ UNCHANGED <<pdf_text, page>>
    /\ pages_read' = 0
    /\ UNCHANGED <<caller, response, document, extracted, written, result>>
    /\ UNCHANGED <<cleanVars, accountVars, fanoutVars, reportVars, clusterVars,
                   docVars>>

\* lines 105-108: page.extract_text() on the next page of the reader
ExtractPyPDF2Page ==
    /\ step = "PyPDF2_pages"
    /\ pages_read < document.pages
    /\ pages_read' = pages_read + 1
    /\ UNCHANGED <<handle, step>>
    /\ UNCHANGED <<caller, response, document, pdf_text, page, extracted, written,
                   result>>
    /\ UNCHANGED <<cleanVars, accountVars, fanoutVars, reportVars, clusterVars,
                   docVars>>

\* lines 102 and 110-118: the with-block closes the file; text that is
\* long enough is returned without a page object
LeaveFile ==
    /\ step = "PyPDF2_pages"
    /\ pages_read = document.pages
    /\ handle' = [handle EXCEPT !.file = "released"]
    /\ IF document.PyPDF2_length > MinTextLength
       THEN pdf_text' = TextOfLength(document.PyPDF2_length)
       ELSE pdf_text' = None
    /\ page' = "None"
    /\ step' = "extracted"
    /\ UNCHANGED pages_read
    /\ UNCHANGED <<caller, response, document, extracted, written, result>>
    /\ UNCHANGED <<cleanVars, accountVars, fanoutVars, reportVars, clusterVars,
                   docVars>>

\* what page.extract_words() may do on a page of a document whose handle is
\* in the state given: pdfplumber, which is not part of the source, gives
\* the words while the document is open; on a closed document it gives
\* them or raises
WordsOutcomes(state) ==
    IF state = "open" THEN {"words"} ELSE {"words", "raises"}

\* lines 62, 123 and 139-140: parse_credit_report hands the page to
\* extract_personal_info, whose first call is page.extract_words(); on
\* None that is an AttributeError
ExtractWordsOfPage ==
    /\ step = "extract_personal_info"
    /\ IF page = "None"
       THEN step' = "raised" /\ result' = "AttributeError"
       ELSE \E outcome \in WordsOutcomes(handle.pdfplumber) :
                IF outcome = "words"
                THEN step' = "words_extracted" /\ UNCHANGED result
                ELSE step' = "raised" /\ result' = "Exception"
    /\ UNCHANGED <<caller, response, document, pdf_text, page, extracted, written>>
    /\ UNCHANGED handleVars
    /\ UNCHANGED <<cleanVars, accountVars, fanoutVars, reportVars, clusterVars,
                   docVars>>
---------------------------------------------------------------------------
(* Each specification runs one function; the variables of the others rest  *)

IdleAccount ==
    /\ account_text = <<>>
    /\ pc = "idle"
    /\ account_data = <<>>
    /\ history_start_index = -1
    /\ scan_i = 0
    /\ current_bureau = "None"
    /\ temp_months = <<>>
    /\ temp_statuses = <<>>
    /\ fin_bureau = 1

IdleClean ==
    /\ cv_value = <<>>
    /\ cv_first = <<>>
    /\ cv_second = <<>>
    /\ cv_calls = -1

IdleFanout ==
    /\ value_line = ""
    /\ agency_line = ""
    /\ parsed = {}
    /\ section_account = None
    /\ collection_data = None
    /\ summary = <<>>

IdleProcess ==
    /\ document = <<>>
    /\ step = "idle"
    /\ pdf_text = None
    /\ page = "None"
    /\ extracted = <<>>
    /\ written = {}
    /\ result = "None"
    /\ caller = "None"
    /\ response = "None"

IdleReport ==
    /\ page_words = <<>>
    /\ report_doc = <<>>
    /\ credit_report = <<>>
    /\ rstep = "idle"
    /\ raised = "None"

IdleDoc ==
    /\ doc_lines = <<>>
    /\ dstep = "idle"
    /\ inquiries_section = None
    /\ public_section = None
    /\ creditor_indices = <<>>
    /\ account_sections = <<>>

IdleCluster ==
    /\ kblock = "None"
    /\ kmeans_words = <<>>
    /\ kmeans = None
    /\ word_bureau = <<>>
    /\ kstep = "idle"

IdleHandle ==
    /\ handle = <<>>
    /\ pages_read = 0
---------------------------------------------------------------------------
(* extract_personal_info on pages laid out in rows and three columns       *)

MaxRows == 3

\* a label at the left margin, and a row of three words, one to a column
LabelRow(text) == << [text |-> text, x0 |-> 40] >>
ColumnRow(text) ==
    << [text |-> text, x0 |-> 100], [text |-> text, x0 |-> 300],
       [text |-> text, x0 |-> 500] >>

\* a row of the employer block: the name of an employer, a date, or in
\* each column the words 'Date Updated' and a date
EmployerRowKinds == {"ACME", "ZETA", "date", "updated"}
EmployerRow(kind) ==
    CASE kind = "ACME" -> ColumnRow(<<"A","C","M","E">>)
      [] kind = "ZETA" -> ColumnRow(<<"Z","E","T","A">>)
      [] kind = "date" -> ColumnRow(<<"1","/","2","/","2","0","2","0">>)
      [] kind = "updated" ->
             << [text |-> <<"D","a","t","e">>, x0 |-> 100], [text |-> <<"U","p","d","a","t","e","d">>, x0 |-> 130],
                [text |-> <<"3","/","4","/","2","1">>, x0 |-> 170],
                [text |-> <<"D","a","t","e">>, x0 |-> 300], [text |-> <<"U","p","d","a","t","e","d">>, x0 |-> 330],
                [text |-> <<"3","/","4","/","2","1">>, x0 |-> 370],
                [text |-> <<"D","a","t","e">>, x0 |-> 500], [text |-> <<"U","p","d","a","t","e","d">>, x0 |-> 530],
                [text |-> <<"3","/","4","/","2","1">>, x0 |-> 570] >>

\* the name block: none, or the label 'Name', one or two rows and the
\* label 'Also' of the block that follows
NameBlocks ==
    { <<>>,
      << LabelRow(<<"N","a","m","e">>), ColumnRow(<<"J","O","H","N">>), LabelRow(<<"A","l","s","o">>) >>,
      << LabelRow(<<"N","a","m","e">>), ColumnRow(<<"J","O","H","N">>), ColumnRow(<<"D","O","E">>),
         LabelRow(<<"A","l","s","o">>) >> }

\* the previous-address block: none, or the label 'Previous' and up to
\* MaxRows rows
AddressBlocks ==
    { <<>> } \cup
    { << LabelRow(<<"P","r","e","v","i","o","u","s">>) >> \o [r \in 1..n |-> ColumnRow(ToStr(r))] :
        n \in 0..MaxRows }

\* the rows of an employer block: fewer than 9 words or more, employers
\* that repeat or change, dates alone, and updates before and after the
\* employer they belong to
EmployerLayouts ==
    { <<>>, <<"ACME">>, <<"ACME", "ZETA">>, <<"updated">>,
      <<"ACME", "ACME", "ACME">>, <<"ACME", "ZETA", "ACME">>,
      <<"date", "date", "date">>, <<"ACME", "date", "ZETA">>,
      <<"ACME", "updated", "ZETA">>, <<"updated", "ACME", "updated">>,
      <<"date", "ACME", "updated">> }

\* the employer block: none, or the label 'Employer' and the rows of a
\* layout
EmployerBlocks ==
    { <<>> } \cup
    { << LabelRow(<<"E","m","p","l","o","y","e","r">>) >> \o [r \in 1..Len(kinds) |-> EmployerRow(kinds[r])] :
        kinds \in EmployerLayouts }

\* the label of the block after the employer block, or nothing
TailBlocks == { <<>>, << LabelRow(<<"C","o","n","s","u","m","e","r">>) >> }

\* the words of the rows as extract_words gives them: row r has top 10 r
RECURSIVE WordsOfRows(_, _)
WordsOfRows(rows, r) ==
    IF r > Len(rows) THEN <<>>
    ELSE [j \in 1..Len(rows[r]) |->
             [text |-> rows[r][j].text, x0 |-> rows[r][j].x0, top |-> 10 * r]]
         \o WordsOfRows(rows, r + 1)

LaidOutPages ==
    { WordsOfRows(n \o a \o e \o t, 1) :
        n \in NameBlocks, a \in AddressBlocks, e \in EmployerBlocks,
        t \in TailBlocks }

\* a text with or without the lines of the personal block
InitPersonal ==
    /\ IdleDoc
    /\ IdleHandle
    /\ page_words \in LaidOutPages
    /\ report_doc \in
           [ info : {{}, {"dob", "current_address", "report_date"}},
             summary_line : {""},
             account_sections : {<<>>},
             collection_sections : {<<>>},
             inquiries : {None},
             public_information : {FALSE} ]
    /\ credit_report = InitialReport
    /\ rstep = "extract_personal_info"
    /\ raised = "None"
    /\ IdleClean
    /\ IdleAccount
    /\ IdleFanout
    /\ IdleProcess
    /\ IdleCluster

NextPersonal == ExtractPersonalInfoFromPage

SpecPersonal == InitPersonal /\ [][NextPersonal]_vars
---------------------------------------------------------------------------
(* The clustering on every order of a list of words                        *)

\* six words in three columns: three at x0 about 100, two about 300 and
\* one about 500
ColumnWords ==
    { [text |-> <<"J","O","H","N">>, x0 |-> 100], [text |-> <<"Q">>, x0 |-> 130],
      [text |-> <<"D","O","E">>, x0 |-> 145],
      [text |-> <<"J","O","N">>, x0 |-> 300], [text |-> <<"D","O","E">>, x0 |-> 330],
      [text |-> <<"J","D">>, x0 |-> 500] }

\* the lists holding each of the words once
WordOrders ==
    { order \in [1..Cardinality(ColumnWords) -> ColumnWords] :
        \A i, j \in DOMAIN order : i # j => order[i] # order[j] }

InitCluster ==
    /\ IdleDoc
    /\ IdleHandle
    /\ kblock \in Blocks
    /\ kmeans_words \in WordOrders
    /\ kmeans = None
    /\ word_bureau = <<>>
    /\ kstep = "fit"
    /\ IdleClean
    /\ IdleAccount
    /\ IdleFanout
    /\ IdleProcess
    /\ IdleReport

NextCluster ==
    \/ FitKMeans
    \/ AssignBureaus

SpecCluster == InitCluster /\ [][NextCluster]_vars


---------------------------------------------------------------------------
(* The clustering on blocks of words laid out in three columns             *)

BlockRows == 3

\* where the left, the middle and the right column of a block may start
ColumnStarts == [left : {40, 100, 150}, mid : {210, 250, 279, 280, 300},
                 right : {450, 500}]

\* the words of a block as extract_words gives them, row after row and
\* from left to right in each row
GridWords(starts) ==
    [i \in 1..(3 * BlockRows) |->
        [ text |-> ToStr(i),
          x0 |-> CASE i % 3 = 1 -> starts.left
                   [] i % 3 = 2 -> starts.mid
                   [] OTHER -> starts.right ]]

InitBlocks ==
    /\ IdleDoc
    /\ IdleHandle
    /\ kblock \in Blocks
    /\ \E starts \in ColumnStarts : kmeans_words = GridWords(starts)
    /\ kmeans = None
    /\ word_bureau = <<>>
    /\ kstep = "fit"
    /\ IdleClean
    /\ IdleAccount
    /\ IdleFanout
    /\ IdleProcess
    /\ IdleReport

SpecBlocks == InitBlocks /\ [][NextCluster]_vars
---------------------------------------------------------------------------
(* parse_credit_report on bounded pages and texts                          *)

MaxWords == 2

\* words that hold the anchors of the name, previous-address and employer
\* blocks, and a word that holds none
WordTexts ==
    { <<"N","a","m","e">>, <<"J","O","H","N">>, <<"P","r","e","v","i","o","u","s">>, <<"E","m","p","l","o","y","e","r">>, <<"C","o","n","s","u","m","e","r">> }

\* the words of a page, one to a line: the word at position j has top 10 j
Pages ==
    { [j \in 1..Len(texts) |-> [text |-> texts[j], top |-> 10 * j]] :
        texts \in SeqsUpTo(WordTexts, MaxWords) }

\* a text with or without the lines of the personal block, a summary
\* line, an account section, a collection section, an inquiries section
\* (with at most one row) and a public-information section; the line of
\* inquiry counts is also a header of the inquiries section (line 521)
ReportDocs ==
    { d \in [ info : {{}, {"dob", "current_address", "report_date"}},
              summary_line : {"", "Open Accounts: 100 200 300", InquiryCountsLine},
              account_sections : {<<>>, <<"record">>},
              collection_sections : {<<>>, <<"record">>},
              inquiries : {None, PyList(<<>>)}
                              \cup {PyList(<<b>>) : b \in BureauSet},
              public_information : BOOLEAN ] :
        d.summary_line = InquiryCountsLine => d.inquiries # None }

InitReport ==
    /\ IdleDoc
    /\ IdleHandle
    /\ page_words \in Pages
    /\ report_doc \in ReportDocs
    /\ credit_report = InitialReport
    /\ rstep = "extract_personal_info"
    /\ raised = "None"
    /\ IdleClean
    /\ IdleAccount
    /\ IdleFanout
    /\ IdleProcess
    /\ IdleCluster

NextReport ==
    \/ ExtractPersonalInfoFromPage
    \/ ExtractSummaryOfReport
    \/ ExtractAccountsData
    \/ ExtractCollections
    \/ ExtractInquiries
    \/ ExtractPublicInformation
    \/ UpdateInquiryCounts

SpecReport == InitReport /\ [][NextReport]_vars

---------------------------------------------------------------------------
(* extract_accounts_data and extract_collections on lists of sections      *)

MaxSections == 3

\* a section is known by what parsing it does: parse_account returns a
\* record or raises, parse_collection may also return None
AccountOutcomes == {"record", "raises"}
CollectionOutcomes == {"record", "None", "raises"}

\* the report of a text without summary line, read from an empty page, as
\* extract_accounts_data finds it
InitSections ==
    /\ IdleDoc
    /\ IdleHandle
    /\ page_words = <<>>
    /\ report_doc \in
           [ info : {{}},
             summary_line : {""},
             account_sections : SeqsUpTo(AccountOutcomes, MaxSections),
             collection_sections : SeqsUpTo(CollectionOutcomes, MaxSections),
             inquiries : {None},
             public_information : {FALSE} ]
    /\ credit_report = InitialReport
    /\ rstep = "extract_accounts_data"
    /\ raised = "None"
    /\ IdleClean
    /\ IdleAccount
    /\ IdleFanout
    /\ IdleProcess
    /\ IdleCluster

NextSections ==
    \/ ExtractAccountsData
    \/ ExtractCollections

SpecSections == InitSections /\ [][NextSections]_vars


---------------------------------------------------------------------------
(* parse_credit_report on texts with lists of inquiries                    *)

MaxInquiries == 3

\* a line of inquiry counts that only the second pattern of line 459 matches
PlainCountsLine == "Inquiries: 4 5 6"

\* the report of a text read from an empty page: with or without a summary
\* line, which may hold inquiry counts, and with an inquiries section of up
\* to MaxInquiries rows, each known by its bureau; a line of inquiry
\* counts is also a header of the inquiries section (line 521)
InitInquiries ==
    /\ IdleDoc
    /\ IdleHandle
    /\ page_words = <<>>
    /\ report_doc \in
           { d \in [ info : {{}},
                     summary_line : {"", "Open Accounts: 100 200 300",
                                     InquiryCountsLine, PlainCountsLine},
                     account_sections : {<<>>},
                     collection_sections : {<<>>},
                     inquiries : {None} \cup
                         { PyList(rows) : rows \in SeqsUpTo(BureauSet, MaxInquiries) },
                     public_information : BOOLEAN ] :
               d.summary_line \in {InquiryCountsLine, PlainCountsLine}
                   => d.inquiries # None }
    /\ credit_report = InitialReport
    /\ rstep = "extract_personal_info"
    /\ raised = "None"
    /\ IdleClean
    /\ IdleAccount
    /\ IdleFanout
    /\ IdleProcess
    /\ IdleCluster

SpecInquiries == InitInquiries /\ [][NextReport]_vars
---------------------------------------------------------------------------
(* The section finders on bounded texts                                    *)

MaxBodyLines == 4

BodyTexts == SeqsUpTo(Range(BodyLines), MaxBodyLines)

InitBodies ==
    /\ doc_lines \in BodyTexts
    /\ dstep = "extract_inquiries"
    /\ inquiries_section = None
    /\ public_section = None
    /\ creditor_indices = <<>>
    /\ account_sections = <<>>
    /\ page_words = <<>>
    /\ report_doc = <<>>
    /\ credit_report = InitialReport
    /\ rstep = "idle"
    /\ raised = "None"
    /\ IdleClean
    /\ IdleAccount
    /\ IdleFanout
    /\ IdleProcess
    /\ IdleCluster
    /\ IdleHandle

NextBodies ==
    \/ ExtractInquiriesOfText
    \/ ExtractPublicInformationOfText

SpecBodies == InitBodies /\ [][NextBodies]_vars

---------------------------------------------------------------------------
(* The account listings on texts built from blocks of lines                *)

MaxItems == 4

\* an account of three lines and one of two, eight lines of detail, a
\* page footer, the line that ends the listings and the header of the
\* next major section
ListingItems ==
    { <<ListingLines[1], ListingLines[2], ListingLines[3]>>,
      <<ListingLines[8], ListingLines[9]>>,
      [j \in 1..8 |-> ListingLines[4]],
      <<ListingLines[5]>>,
      <<ListingLines[6]>>,
      <<ListingLines[7]>> }

\* the lines of the items, one item after the other
RECURSIVE Flatten(_)
Flatten(items) ==
    IF items = <<>> THEN <<>> ELSE Head(items) \o Flatten(Tail(items))

ListingTexts == { Flatten(items) : items \in SeqsUpTo(ListingItems, MaxItems) }

InitListing ==
    /\ doc_lines \in ListingTexts
    /\ dstep = "identify_account_sections"
    /\ inquiries_section = None
    /\ public_section = None
    /\ creditor_indices = <<>>
    /\ account_sections = <<>>
    /\ page_words = <<>>
    /\ report_doc = <<>>
    /\ credit_report = InitialReport
    /\ rstep = "idle"
    /\ raised = "None"
    /\ IdleClean
    /\ IdleAccount
    /\ IdleFanout
    /\ IdleProcess
    /\ IdleCluster
    /\ IdleHandle

NextListing ==
    \/ IdentifyAccountSections
    \/ ParseAccountSections

SpecListing == InitListing /\ [][NextListing]_vars

---------------------------------------------------------------------------
(* parse_account on bounded account texts                                  *)

MaxFieldLines == 3
MaxHistoryLines == 4

\* the lines of a payment-history block: the header line and up to rows
\* lines after it, or fewer lines in any order
HistoryBodies(rows) ==
    { <<HistoryLines[1]>> \o block :
        block \in SeqsUpTo(Range(HistoryLines), rows) }
      \cup SeqsUpTo(Range(HistoryLines), rows - 1)

\* an account section starts with its creditor line; the lines after it
\* are field lines, or the lines of a payment-history block
AccountTexts(fields, rows) ==
    { <<CreditorLine>> \o body :
        body \in SeqsUpTo(Range(FieldLines), fields) \cup HistoryBodies(rows) }

InitAccount ==
    /\ IdleDoc
    /\ IdleHandle
    /\ account_text \in AccountTexts(MaxFieldLines, MaxHistoryLines)
    /\ pc = "creditor"
    /\ account_data = <<>>
    /\ history_start_index = -1
    /\ scan_i = 0
    /\ current_bureau = "None"
    /\ temp_months = <<>>
    /\ temp_statuses = <<>>
    /\ fin_bureau = 1
    /\ IdleClean
    /\ IdleFanout
    /\ IdleProcess
    /\ IdleReport
    /\ IdleCluster

NextAccount ==
    \/ ExtractCreditor
    \/ ExtractFields
    \/ FindHeader
    \/ ScanBreak
    \/ ScanBureau
    \/ ScanNoneReported
    \/ ScanTokens
    \/ ScanSkip
    \/ FinalizeBureau

SpecAccount == InitAccount /\ [][NextAccount]_vars

---------------------------------------------------------------------------
(* Calls of clean_value on bounded inputs                                  *)

MaxCleanLen == 3

\* characters of the short inputs: the currency symbol, the thousands
\* separator, the characters of the absence markers '--' and 'N/A', a digit
CleanAlphabet == {"$", ",", "-", "N", "/", "A", "1"}

RECURSIVE StringsUpTo(_, _)
StringsUpTo(alphabet, n) ==
    IF n = 0 THEN {<<>>}
    ELSE LET shorter == StringsUpTo(alphabet, n - 1)
         IN  shorter \cup { Append(s, c) : s \in shorter, c \in alphabet }

DateMonths == { <<"3">>, <<"0","3">>, <<"1","2">>, <<"1","3">>, <<"2">>, <<"0">> }
DateDays == { <<"5">>, <<"0","5">>, <<"2","9">>, <<"3","0">>, <<"3","1">>, <<"0">> }
DateYears == { <<"2","4">>, <<"6","8">>, <<"6","9">>,
               <<"2","0","2","4">>, <<"2","0","2","3">>, <<"1","9","0","0">> }

SlashDates ==
    { m \o <<"/">> \o d \o <<"/">> \o y :
        m \in DateMonths, d \in DateDays, y \in DateYears }

MonthNameInputs == {
    <<"M","a","r","c","h"," ","5",","," ","2","0","2","4">>,
    <<"M","a","r","c","h"," ","5",",","2","0","2","4">>,
    <<"M","a","r","c","h"," ","5"," ","2","0","2","4">>,
    <<"m","a","r","c","h"," ","0","5",","," ","2","0","2","4">>,
    <<"M","a","r"," ","5",","," ","2","0","2","4">>,
    <<"J","u","n","e"," ","3","1",","," ","2","0","2","4">> }

CleanInputs ==
    StringsUpTo(CleanAlphabet, MaxCleanLen)
        \cup SlashDates
        \cup { <<"$">> \o s : s \in SlashDates }
        \cup MonthNameInputs

InitClean ==
    /\ IdleDoc
    /\ IdleHandle
    /\ cv_value \in CleanInputs
    /\ cv_first = <<>>
    /\ cv_second = <<>>
    /\ cv_calls = 0
    /\ IdleAccount
    /\ IdleFanout
    /\ IdleProcess
    /\ IdleReport
    /\ IdleCluster

\* value = clean_value(raw)
CleanFirst ==
    /\ cv_calls = 0
    /\ cv_first' = clean_value(cv_value)
    /\ cv_calls' = 1
    /\ UNCHANGED <<cv_value, cv_second>>
    /\ UNCHANGED notClean

\* the already-normalized value is normalized again
CleanAgain ==
    /\ cv_calls = 1
    /\ cv_second' = clean_value(cv_first)
    /\ cv_calls' = 2
    /\ UNCHANGED <<cv_value, cv_first>>
    /\ UNCHANGED notClean

NextClean == CleanFirst \/ CleanAgain

SpecClean == InitClean /\ [][NextClean]_vars

---------------------------------------------------------------------------
(* parse_account, parse_collection and extract_summary on the same line    *)

InitFanout ==
    /\ IdleDoc
    /\ IdleHandle
    /\ value_line \in Range(ValueLines)
    /\ agency_line \in Range(AgencyLines)
    /\ parsed = {}
    /\ section_account = None
    /\ collection_data = None
    /\ summary = EmptySummary
    /\ IdleClean
    /\ IdleAccount
    /\ IdleProcess
    /\ IdleReport
    /\ IdleCluster

NextFanout ==
    \/ ParseAccountSection
    \/ ParseCollectionSection
    \/ ExtractSummary

SpecFanout == InitFanout /\ [][NextFanout]_vars

---------------------------------------------------------------------------
(* process on the files the two libraries can meet                         *)

MaxPages == 2

\* the lengths of extracted text around the threshold
TextLengths == {0, MinTextLength, MinTextLength + 1}

\* a file without pages has no text; previous_address tells whether the
\* words of the first page hold both ends of the previous-address block
Documents ==
    { d \in [ has_path : BOOLEAN,
              exists : BOOLEAN,
              pdfplumber : {"opens", "raises"},
              pages : 0..MaxPages,
              pdfplumber_length : TextLengths,
              PyPDF2 : {"reads", "raises"},
              PyPDF2_length : TextLengths,
              previous_address : {"found", "missing"} ] :
        /\ d.pages = 0 => d.pdfplumber_length = 0 /\ d.PyPDF2_length = 0
        /\ d.pdfplumber = "raises" => d.pdfplumber_length = 0
        /\ d.PyPDF2 = "raises" => d.PyPDF2_length = 0
        /\ ~d.exists => d.pdfplumber = "raises" /\ d.PyPDF2 = "raises" /\ d.pages = 0 }

\* the two get_report handlers write the upload to a file of their own
\* and pass its path (main.py lines 27-32, views.py lines 21-26)
Callers ==
    {"process", "process_credit_report", "main.get_report", "views.get_report"}

InitProcess ==
    /\ IdleDoc
    /\ IdleHandle
    /\ document \in Documents
    /\ caller \in Callers
    /\ caller \in {"main.get_report", "views.get_report"} =>
           document.has_path /\ document.exists
    /\ response = "None"
    /\ step = "start"
    /\ pdf_text = None
    /\ page = "None"
    /\ extracted = <<>>
    /\ written = {}
    /\ result = "None"
    /\ IdleClean
    /\ IdleAccount
    /\ IdleFanout
    /\ IdleReport
    /\ IdleCluster

NextProcess ==
    \/ ProcessStart
    \/ ExtractWithPdfplumber
    \/ ExtractWithPyPDF2
    \/ CheckText
    \/ ExtractPersonalInfo
    \/ SummaryStep
    \/ AccountsStep
    \/ CollectionsStep
    \/ InquiriesStep
    \/ PublicInformationStep
    \/ InquiryCountsStep
    \/ SaveJson
    \/ CreateExcel
    \/ ProcessCall
    \/ WrapperCall
    \/ MainGetReport
    \/ ViewsGetReport

SpecProcess == InitProcess /\ [][NextProcess]_vars

---------------------------------------------------------------------------
(* process up to the first call on the page, statement by statement        *)

\* the files of Documents, and files on which extract_text raises
HandleDocuments ==
    { d \in [ has_path : {TRUE},
              exists : BOOLEAN,
              pdfplumber : {"opens", "raises", "page_raises"},
              pages : 0..MaxPages,
              pdfplumber_length : TextLengths,
              PyPDF2 : {"reads", "raises"},
              PyPDF2_length : TextLengths,
              previous_address : {"found"} ] :
        /\ d.pages = 0 => d.pdfplumber_length = 0 /\ d.PyPDF2_length = 0
        /\ d.pdfplumber # "opens" => d.pdfplumber_length = 0
        /\ d.pdfplumber = "page_raises" => d.pages > 0
        /\ d.PyPDF2 = "raises" => d.PyPDF2_length = 0
        /\ ~d.exists => d.pdfplumber = "raises" /\ d.PyPDF2 = "raises" /\ d.pages = 0 }

InitHandle ==
    /\ IdleDoc
    /\ document \in HandleDocuments
    /\ caller = "process"
    /\ response = "None"
    /\ step = "start"
    /\ pdf_text = None
    /\ page = "None"
    /\ extracted = <<>>
    /\ written = {}
    /\ result = "None"
    /\ handle = NoHandle
    /\ pages_read = 0
    /\ IdleClean
    /\ IdleAccount
    /\ IdleFanout
    /\ IdleReport
    /\ IdleCluster

NextHandle ==
    \/ ProcessStart
    \/ OpenPdfplumber
    \/ ExtractPdfplumberPage
    \/ LeavePdfplumber
    \/ OpenFile
    \/ ExtractPyPDF2Page
    \/ LeaveFile
    \/ CheckText
    \/ ExtractWordsOfPage

SpecHandle == InitHandle /\ [][NextHandle]_vars
---------------------------------------------------------------------------
(* parse_account on account texts whose payment-history block is long      *)

MaxScanLines == 4

\* the creditor line, the header of the block and up to rows lines
HistoryTexts(rows) ==
    { <<CreditorLine, HistoryLines[1]>> \o block :
        block \in SeqsUpTo(Range(BlockLines), rows) }

InitHistory ==
    /\ IdleDoc
    /\ IdleHandle
    /\ account_text \in HistoryTexts(MaxScanLines)
    /\ pc = "creditor"
    /\ account_data = <<>>
    /\ history_start_index = -1
    /\ scan_i = 0
    /\ current_bureau = "None"
    /\ temp_months = <<>>
    /\ temp_statuses = <<>>
    /\ fin_bureau = 1
    /\ IdleClean
    /\ IdleFanout
    /\ IdleProcess
    /\ IdleReport
    /\ IdleCluster

SpecHistory == InitHistory /\ [][NextAccount]_vars

---------------------------------------------------------------------------
(* Properties of parse_account                                             *)

\* the field loop of parse_account has run
FieldsDone == pc \in {"header", "scan", "finalize", "done"}

\* line j of the account text is the line in which the search for pattern k
\* matches: the first line holding the label
FieldLine(k, j) ==
    /\ k \in LineInfo[account_text[j]].labelled
    /\ \A h \in 1..(j - 1) : k \notin LineInfo[account_text[h]].labelled

\* the whitespace-separated tokens left of line j once the label of
\* pattern k is stripped
Remainder(k, j) == LineInfo[account_text[j]].after_label[k]

Patterns == 1..Len(key_value_patterns)
KeyOf(k) == key_value_patterns[k].key
Stored(b, k) == KeyOf(k) \in DOMAIN account_data[b]

C2_OtherCountsLeaveUnset ==
    FieldsDone =>
        \A k \in Patterns : \A j \in 1..Len(account_text) :
            (FieldLine(k, j) /\ Len(Remainder(k, j)) \notin {1, 3}) =>
                \A b \in BureauSet : ~Stored(b, k)

HasHistoryHeader ==
    \E j \in 1..Len(account_text) : LineInfo[account_text[j]].header

\* the entry stands for 'NONE REPORTED', in whichever way it is written
MarkedNoneReported(entry) ==
    \/ entry = PyStr(NONE_REPORTED)
    \/ entry.statuses = PyStr(NONE_REPORTED)

\* the entry is a grid of exactly 24 months and 24 statuses
FullGrid(entry) ==
    /\ Len(entry.months) = 24
    /\ DOMAIN entry.statuses = {"list"}
    /\ Len(entry.statuses.list) = 24

\* C5 as stated: in every account record returned, each bureau's
\* payment_history entry is the sentinel or has exactly 24 months and
\* exactly 24 statuses.
C5_SentinelOrFullGrid ==
    pc = "done" =>
        \A b \in BureauSet :
            \/ MarkedNoneReported(account_data.payment_history[b])
            \/ FullGrid(account_data.payment_history[b])

\* C5 amended: the same for every account record whose text holds the
\* 'Two-Year Payment History' header, whatever the number of month and
\* status tokens; the sentinel entry holds no months and the string
\* 'NONE REPORTED' as statuses.
C5_GridWhenHeaderPresent ==
    (pc = "done" /\ HasHistoryHeader) =>
        \A b \in BureauSet :
            \/ account_data.payment_history[b] =
                   [months |-> <<>>, statuses |-> PyStr(NONE_REPORTED)]
            \/ FullGrid(account_data.payment_history[b])

\* an account with more than 24 tokens for one bureau, fewer for another
\* (none at all) and unequal numbers of months and statuses was returned
C5_Witness ==
    /\ pc = "done"
    /\ HasHistoryHeader
    /\ \E b \in BureauSet :
          /\ Len(temp_months[b]) > 24
          /\ Len(temp_statuses[b]) > 24
          /\ Len(temp_months[b]) # Len(temp_statuses[b])
          /\ FullGrid(account_data.payment_history[b])
    /\ \E b \in BureauSet :
          /\ temp_months[b] = <<>>
          /\ temp_statuses[b] = <<>>
          /\ FullGrid(account_data.payment_history[b])

\* what the scan finds in line j (from 0) of the account text
Line(j) == LineInfo[account_text[j + 1]]

\* the history scan reads line j (from 0): the line lies after the header,
\* inside the scanned window, and no section keyword ended the scan
\* before it
ScanReads(j) ==
    /\ HasHistoryHeader
    /\ j > FindHistoryStart(account_text)
    /\ j < ScanLimit(account_text, FindHistoryStart(account_text))
    /\ \A h \in (FindHistoryStart(account_text) + 1)..(j - 1) :
           ~Line(h).ends_history

\* line j (from 0) is read as the header of bureau b and line j + 1 as that
\* bureau's 'none reported' / 'no history' line
NoneReportedAfterBureau(b, j) ==
    /\ ScanReads(j + 1)
    /\ ~Line(j).ends_history
    /\ Line(j).bureau = b
    /\ ~Line(j + 1).ends_history
    /\ Line(j + 1).bureau = "None"
    /\ Line(j + 1).none_reported

\* line j (from 0) names bureau b and line j + 1 contains 'none reported' or
\* 'no history', both inside the payment-history block
NoneReportedLineFollows(b, j) ==
    /\ ScanReads(j + 1)
    /\ Line(j).bureau = b
    /\ Line(j + 1).none_reported

C6_FinalEntry ==
    pc = "done" =>
        \A b \in BureauSet : \A j \in 1..(Len(account_text) - 2) :
            NoneReportedAfterBureau(b, j) =>
                account_data.payment_history[b] =
                    [months |-> <<>>, statuses |-> PyStr(NONE_REPORTED)]

\* the step that reads the 'none reported' line changes the token streams
\* of the bureau named before it, and of no other bureau
C6_LineStep ==
    \A b \in BureauSet :
        (pc = "scan" /\ scan_i >= 2 /\ NoneReportedAfterBureau(b, scan_i - 1)) =>
            /\ temp_months'[b] = <<>>
            /\ temp_statuses'[b] = <<NONE_REPORTED>>
            /\ \A o \in BureauSet \ {b} :
                   /\ temp_months'[o] = temp_months[o]
                   /\ temp_statuses'[o] = temp_statuses[o]

C7_NoHeaderKeepsDefault ==
    (~HasHistoryHeader /\ pc \notin {"creditor", "fields", "header"}) =>
        /\ pc = "done"
        /\ \A b \in BureauSet :
               account_data.payment_history[b] =
                   [months |-> <<>>, statuses |-> PyList(<<>>)]

\* an account without the header was returned with its fields parsed
C7_Witness ==
    /\ pc = "done"
    /\ ~HasHistoryHeader
    /\ account_data.creditor = Chars(CreditorLine)
    /\ "balance_owed" \in DOMAIN account_data.transunion
    /\ account_data.payment_history["equifax"] =
           [months |-> <<>>, statuses |-> PyList(<<>>)]

---------------------------------------------------------------------------
(* Properties of clean_value                                               *)

\* C8: clean_value is idempotent: clean_value(clean_value(x)) equals
\* clean_value(x) for every input x.
C8_Idempotent == cv_calls = 2 => cv_second = cv_first

\* the three ways of writing 5 March 2024 named by the specification
March5Inputs == {
    <<"0","3","/","5","/","2","4">>,
    <<"3","/","5","/","2","0","2","4">>,
    <<"M","a","r","c","h"," ","5",","," ","2","0","2","4">> }

\* C9: clean_value('03/5/24'), clean_value('3/5/2024') and
\* clean_value('March 5, 2024') all return '03/05/2024'.
C9_ThreeShapesOneDate ==
    (cv_calls >= 1 /\ cv_value \in March5Inputs) =>
        cv_first = <<"0","3","/","0","5","/","2","0","2","4">>

---------------------------------------------------------------------------
(* Properties of the fan-out in the three parsers                          *)

\* the whitespace-separated values after the label of the line
ValuesAfter(label) ==
    LET chars == Chars(value_line)
        at == Find(Lower(label), Lower(chars))
    IN  Words(SubSeq(chars, at + Len(label), Len(chars)))

\* the field a parser stored for a bureau, read as the normalized value
StoredAs(fields, key, value) ==
    /\ key \in DOMAIN fields
    /\ clean_value(fields[key]) = clean_value(value)

\* the policy on the values of a line: three values go to the bureaus in
\* order, a single value goes to all three
PolicyApplied(data, key, values) ==
    /\ Len(values) = 3 =>
           \A i \in 1..3 : StoredAs(data[Bureaus[i]], key, values[i])
    /\ Len(values) = 1 =>
           \A i \in 1..3 : StoredAs(data[Bureaus[i]], key, values[1])

\* the first literal of a pattern: its label
LabelOf(pattern) ==
    LET k == CHOOSE n \in 1..Len(pattern) :
                 /\ pattern[n].kind = "lit"
                 /\ \A h \in 1..(n - 1) : pattern[h].kind # "lit"
    IN  pattern[k].text

HasLabel(label) == Contains(Lower(label), Lower(Chars(value_line)))

\* every value is a plain number, the form all three parsers read
PlainValues(values) == \A i \in 1..Len(values) : AllDigits(values[i])

AccountPolicy ==
    "account" \in parsed =>
        \A k \in 1..Len(key_value_patterns) :
            Contains(key_value_patterns[k].label, Chars(value_line)) =>
                PolicyApplied(section_account, key_value_patterns[k].key,
                              ValuesAfter(key_value_patterns[k].label))

CollectionPolicy ==
    ("collection" \in parsed /\ AgencyOf(CollectionText) # None) =>
        \A k \in 1..Len(collection_patterns) :
            ( /\ Contains(LabelOf(collection_patterns[k].pattern), Chars(value_line))
              /\ PlainValues(ValuesAfter(LabelOf(collection_patterns[k].pattern))) ) =>
                /\ collection_data # None
                /\ PolicyApplied(collection_data, collection_patterns[k].key,
                                 ValuesAfter(LabelOf(collection_patterns[k].pattern)))

\* the counts of the summary: total, open, closed, delinquent, derogatory
\* accounts and public records
SummaryPolicy ==
    "summary" \in parsed =>
        \A k \in {1, 2, 3, 4, 5, 9} :
            ( /\ HasLabel(LabelOf(summary_patterns[k].pattern))
              /\ PlainValues(ValuesAfter(LabelOf(summary_patterns[k].pattern))) ) =>
                PolicyApplied(summary, summary_patterns[k].key,
                              ValuesAfter(LabelOf(summary_patterns[k].pattern)))

\* C4: the fan-out policy is the same in account, collection and summary
\* parsing: for a line 'Label: v1 v2 v3' each of parse_account,
\* parse_collection and extract_summary assigns v1 to transunion, v2 to
\* experian and v3 to equifax, and for a line with a single value each of
\* them gives that value to all three bureaus.
C4_SamePolicyInThreeParsers ==
    /\ AccountPolicy
    /\ CollectionPolicy
    /\ SummaryPolicy

\* a value as clean_value leaves it: no '$', no ',', and a date of digits
\* and slashes has two digits of month, two of day and four of year
Cleaned(value) ==
    LET p == SplitOn(value, "/")
    IN  /\ ~Contains(<<"$">>, value)
        /\ ~Contains(<<",">>, value)
        /\ (Len(p) = 3 /\ \A i \in 1..3 : p[i] # <<>> /\ AllDigits(p[i])) =>
               (Len(p[1]) = 2 /\ Len(p[2]) = 2 /\ Len(p[3]) = 4)

\* every field stored under a bureau of the record is cleaned
FieldsCleaned(data) ==
    \A b \in BureauSet : \A key \in DOMAIN data[b] : Cleaned(data[b][key])

AccountValuesCleaned ==
    "account" \in parsed => FieldsCleaned(section_account)

CollectionValuesCleaned ==
    ("collection" \in parsed /\ collection_data # None) =>
        FieldsCleaned(collection_data)

SummaryValuesCleaned ==
    "summary" \in parsed => FieldsCleaned(summary)

\* C15: every field value stored by account, collection and summary
\* extraction has passed through clean_value: no stored value contains '$'
\* or a ',' thousands separator, and every date-shaped value is in
\* MM/DD/YYYY form.
C15_StoredValuesAreCleaned ==
    /\ AccountValuesCleaned
    /\ CollectionValuesCleaned
    /\ SummaryValuesCleaned

---------------------------------------------------------------------------
(* Properties of process                                                   *)

\* text came from the fallback decoder: there is text and no page object
FallbackText == pdf_text # None /\ page = "None"

LaterSections ==
    {"summary", "accounts", "collections", "inquiries", "public_information"}

\* C10: when the text was obtained through the fallback decoder and there
\* is no page object, the pipeline does not fail: no exception ends it, and
\* summary, accounts, collections, inquiries and public information are
\* still extracted.
C10_FallbackDoesNotFail ==
    FallbackText =>
        /\ step # "raised"
        /\ step = "returned" =>
               /\ result = "True"
               /\ LaterSections \subseteq Range(extracted)

\* the document is missing or unreadable, or neither library gets more
\* than 1000 characters of text out of it
InputError ==
    \/ ~document.has_path
    \/ ~document.exists
    \/ document.pdfplumber_length <= 1000 /\ document.PyPDF2_length <= 1000

\* the answers that report success, with or without a report
SuccessResponses == {"True", "credit_report", "success"}

\* C12: when the input document is missing, unreadable or yields at most
\* 1000 characters of text, the pipeline aborts before parsing and before
\* writing output, and no entry point (process,
\* parser_wrapper.process_credit_report, get_report) reports success with
\* a report for that document.
C12_InputErrorIsOneFailure ==
    InputError =>
        /\ extracted = <<>>
        /\ written = {}
        /\ response \notin SuccessResponses

---------------------------------------------------------------------------
(* Claims about the scan of the payment-history block (SpecHistory)        *)

\* the streams of bureau b hold no 'NONE REPORTED' marker
NotSentinel(b) ==
    \A j \in 1..Len(temp_statuses[b]) : temp_statuses[b][j] # NONE_REPORTED

\* the last min(Len(tokens), 24) slots of the 24-slot grid hold the last
\* tokens in their order, and every slot before them holds fill
RightAligned(grid, tokens, fill) ==
    LET k == Min(Len(tokens), 24)
    IN  /\ Len(grid) = 24
        /\ \A j \in 1..k : grid[24 - k + j] = tokens[Len(tokens) - k + j]
        /\ \A j \in 1..(24 - k) : grid[j] = fill

\* the month tokens as line 940 stores them
WithoutApostrophe(tokens) ==
    [j \in 1..Len(tokens) |-> Remove(tokens[j], "'")]

\* C17 as stated: for a bureau whose block is not the sentinel, the last
\* min(m,24) accumulated month tokens occupy the last slots of months and
\* the leading slots are '', and the last min(s,24) status tokens occupy
\* the last slots of statuses and the leading slots are 'NO DATA'.
C17_TokensRightAligned ==
    pc = "done" =>
        \A b \in BureauSet :
            NotSentinel(b) =>
                /\ RightAligned(account_data.payment_history[b].months,
                                temp_months[b], <<>>)
                /\ RightAligned(account_data.payment_history[b].statuses.list,
                                temp_statuses[b], NO_DATA)

\* C17 amended: the same alignment, of the month tokens with their
\* apostrophe removed (the year token '25 is stored as 25) and of the
\* status tokens as accumulated; tokens older than the last 24 are
\* dropped and unequal numbers of months and statuses are accepted.
C17_StrippedTokensRightAligned ==
    pc = "done" =>
        \A b \in BureauSet :
            NotSentinel(b) =>
                /\ RightAligned(account_data.payment_history[b].months,
                                WithoutApostrophe(temp_months[b]), <<>>)
                /\ RightAligned(account_data.payment_history[b].statuses.list,
                                temp_statuses[b], NO_DATA)

\* one bureau was finalized with more than 24 months and statuses, another
\* with fewer than 24 of each, and both with unequal numbers of the two
C17_Witness ==
    /\ pc = "done"
    /\ \E b \in BureauSet :
          /\ NotSentinel(b)
          /\ Len(temp_months[b]) > 24
          /\ Len(temp_statuses[b]) > Len(temp_months[b])
          /\ account_data.payment_history[b].months[1] # <<>>
    /\ \E b \in BureauSet :
          /\ NotSentinel(b)
          /\ Len(temp_statuses[b]) > 0
          /\ Len(temp_months[b]) > Len(temp_statuses[b])
          /\ Len(temp_months[b]) < 24
          /\ account_data.payment_history[b].months[1] = <<>>
          /\ account_data.payment_history[b].statuses.list[1] = NO_DATA

\* the scan reads the line at scan_i as the header of bureau b
ReadsBureauLine(b) ==
    /\ pc = "scan"
    /\ ~ScannedLine.ends_history
    /\ ScannedLine.bureau = b

C18_HeaderStep ==
    \A b \in BureauSet :
        ReadsBureauLine(b) =>
            /\ temp_months'[b] = <<>>
            /\ temp_statuses'[b] = <<>>

\* C18: each time a bureau-name line is matched in the payment-history
\* block the accumulation buffer of that bureau is reset, so the tokens of
\* an earlier block of the same bureau are not part of its final months
\* and statuses.
C18_BureauLineResetsBuffer == [][C18_HeaderStep]_vars

\* per line, whether the section regex of line 880 finds a keyword in it
HasSectionKeyword ==
    [line \in AllLines |->
        \E w \in SectionKeywords : Contains(w, Lower(Strip(Chars(line))))]

\* a line with a section keyword lies between the header and the line the
\* scan is at, that line included
KeywordAppeared ==
    /\ pc = "scan"
    /\ \E h \in (history_start_index + 1)..scan_i :
           HasSectionKeyword[account_text[h + 1]]

C19_KeywordStep ==
    KeywordAppeared =>
        /\ temp_months' = temp_months
        /\ temp_statuses' = temp_statuses

\* C19: once a line with a terminating section keyword has appeared in the
\* block, neither that line nor any later line of the account adds a month
\* or a status token to any bureau.
C19_KeywordStopsAccumulation == [][C19_KeywordStep]_vars

\* per line, whether one of its words is NO with no DATA after it
CarriesBareNo ==
    [line \in AllLines |->
        LET words == LineInfo[line].words
        IN  \E j \in 1..Len(words) :
               /\ Upper(words[j]) = <<"N","O">>
               /\ j < Len(words) => Upper(words[j + 1]) # <<"D","A","T","A">>]

\* the number of 'NO DATA' entries of a status stream
NoDataCount(statuses) ==
    Cardinality({j \in 1..Len(statuses) : statuses[j] = NO_DATA})

\* the scan reads a line for the bureau it is accumulating
Accumulates(b) ==
    /\ pc = "scan"
    /\ current_bureau = b
    /\ ~ScannedLine.ends_history
    /\ ScannedLine.bureau = "None"
    /\ ~ScannedLine.none_reported

C20_BareNoStep ==
    \A b \in BureauSet :
        (Accumulates(b) /\ CarriesBareNo[account_text[scan_i + 1]]) =>
            NoDataCount(temp_statuses'[b]) = NoDataCount(temp_statuses[b]) + 1

\* C20: while accumulating for a bureau, a line with a bare NO token (not
\* followed by DATA) adds one 'NO DATA' entry to that bureau's status
\* stream.
C20_BareNoBecomesNoData == [][C20_BareNoStep]_vars

---------------------------------------------------------------------------
(* Properties of parse_credit_report                                       *)

\* the page holds no start word or no end word of the block
NoNameAnchor == ~NameLocated(page_words)
NoPreviousAnchor ==
    AnchorEnd(page_words, AnchorStart(page_words, PreviousKeys),
              SECTION_TRIGGERS) = 0
NoEmployerAnchor ==
    AnchorEnd(page_words, AnchorStart(page_words, { <<"e","m","p","l","o","y","e","r">> }),
              { <<"c","o","n","s","u","m","e","r">> }) = 0

\* no bureau of personal_info holds the key
PersonalUnset(key) ==
    \A b \in BureauSet : key \notin DOMAIN credit_report.personal_info[b]

\* parse_credit_report has ended, by return or by exception
ReportEnded == rstep \in {"done", "raised"}

\* the section has no anchor: its output is the default, no exception was
\* raised, and if the pipeline has ended every step has run
DefaultAndContinues(unanchored, default) ==
    unanchored =>
        /\ default
        /\ raised = "None"
        /\ ReportEnded => rstep = "done"

NameDefault == DefaultAndContinues(NoNameAnchor, PersonalUnset("name"))
PreviousAddressDefault ==
    DefaultAndContinues(NoPreviousAnchor, PersonalUnset("previous_address"))
EmployerDefault ==
    DefaultAndContinues(NoEmployerAnchor, PersonalUnset("employer"))
SummaryDefault ==
    DefaultAndContinues(report_doc.summary_line = "",
        \A b \in BureauSet : DOMAIN credit_report.summary[b] \subseteq {"inquiries_2y"})
AccountsDefault ==
    DefaultAndContinues(report_doc.account_sections = <<>>,
                        credit_report.accounts = <<>>)
CollectionsDefault ==
    DefaultAndContinues(report_doc.collection_sections = <<>>,
                        credit_report.collections = <<>>)
InquiriesDefault ==
    DefaultAndContinues(report_doc.inquiries = None,
                        credit_report.inquiries = <<>>)
PublicInformationDefault ==
    DefaultAndContinues(~report_doc.public_information,
        credit_report.public_information = [b \in BureauSet |-> <<>>])

\* C11: for every section (name, previous address, employer, summary,
\* accounts, collections, inquiries, public information), when the document
\* holds no anchor for the section its output stays at the default, no
\* exception is raised and every later step of parse_credit_report runs.
C11_MissingAnchorKeepsDefault ==
    /\ NameDefault
    /\ PreviousAddressDefault
    /\ EmployerDefault
    /\ SummaryDefault
    /\ AccountsDefault
    /\ CollectionsDefault
    /\ InquiriesDefault
    /\ PublicInformationDefault

\* the positions of the sections that parse to a record
Kept(sections) == { i \in 1..Len(sections) : sections[i] = "record" }

\* the list holds the records of the kept sections, in document order
KeptInOrder(list, sections, kind) ==
    /\ Len(list) = Cardinality(Kept(sections))
    /\ \A i \in Kept(sections) :
           list[Cardinality({h \in Kept(sections) : h <= i})] =
               SectionRecord(kind, i)

\* C13: when parsing one account or collection section raises, only that
\* item is skipped: the sections before and after it are parsed and
\* appended to accounts / collections in document order, and the exception
\* does not leave extract_accounts_data or extract_collections.
C13_OnlyFailingItemSkipped ==
    /\ raised = "None"
    /\ rstep \in {"extract_collections", "extract_inquiries"} =>
           KeptInOrder(credit_report.accounts, report_doc.account_sections,
                       "accounts")
    /\ rstep = "extract_inquiries" =>
           KeptInOrder(credit_report.collections,
                       report_doc.collection_sections, "collections")

\* a section that raises lies between two sections that give a record
RaisesBetweenRecords(sections) ==
    \E i, j, k \in 1..Len(sections) :
        /\ i < j /\ j < k
        /\ sections[i] = "record"
        /\ sections[j] = "raises"
        /\ sections[k] = "record"

\* both loops ran over such sections and kept two records each
C13_Witness ==
    /\ rstep = "extract_inquiries"
    /\ RaisesBetweenRecords(report_doc.account_sections)
    /\ RaisesBetweenRecords(report_doc.collection_sections)
    /\ Len(credit_report.accounts) = 2
    /\ Len(credit_report.collections) = 2

\* the map has the three bureaus as its keys
BureauKeyed(map) == DOMAIN map = {"transunion", "experian", "equifax"}

\* the keys of a record that are names of bureaus or of the count keys
BureauKeysOf(record) == DOMAIN record \cap AllCountKeys

\* C14: in every state of the report, after construction and after every
\* extraction step, each bureau-keyed map (personal_info, summary,
\* public_information, the per-bureau maps of each account and collection,
\* and payment_history) has exactly the keys transunion, experian and
\* equifax.
C14_ThreeBureauKeys ==
    rstep # "idle" =>
        /\ BureauKeyed(credit_report.personal_info)
        /\ BureauKeyed(credit_report.summary)
        /\ BureauKeyed(credit_report.public_information)
        /\ \A n \in 1..Len(credit_report.accounts) :
               /\ BureauKeysOf(credit_report.accounts[n]) = BureauSet
               /\ BureauKeyed(credit_report.accounts[n].payment_history)
        /\ \A n \in 1..Len(credit_report.collections) :
               BureauKeysOf(credit_report.collections[n]) = BureauSet

\* every step has run on a report with an account, a collection, an
\* inquiry, public information, personal data and counted inquiries
C14_Witness ==
    /\ rstep = "done"
    /\ Len(credit_report.accounts) = 1
    /\ Len(credit_report.collections) = 1
    /\ Len(credit_report.inquiries) = 1
    /\ "report_date" \in DOMAIN credit_report.personal_info["equifax"]
    /\ "type" \in DOMAIN credit_report.public_information["equifax"]
    /\ "summary_data" \notin DOMAIN credit_report
    /\ credit_report.summary["transunion"]["inquiries_2y"] = <<"1">>
    /\ credit_report.summary["experian"]["inquiries_2y"] = <<"0">>

---------------------------------------------------------------------------
(* Properties of the clustering                                            *)

\* C16: bureau labelling by clustering does not depend on the order of the
\* input words: for every order of a word list with three columns (x0
\* about 100, 300 and 500) the words of the leftmost column are assigned to
\* transunion, those of the middle column to experian and those of the
\* rightmost column to equifax.
C16_ColumnsToBureausInAnyOrder ==
    kstep = "done" =>
        \A i \in 1..Len(kmeans_words) :
            /\ kmeans_words[i].x0 < 200 => word_bureau[i] = "transunion"
            /\ (kmeans_words[i].x0 > 200 /\ kmeans_words[i].x0 < 400) =>
                   word_bureau[i] = "experian"
            /\ kmeans_words[i].x0 > 400 => word_bureau[i] = "equifax"

\* the words were given from right to left and the leftmost column did not
\* get the cluster index 0
C16_Witness ==
    /\ kstep = "done"
    /\ kmeans_words[1].x0 > 400
    /\ kmeans_words[Len(kmeans_words)].x0 < 200
    /\ kmeans.labels_[Len(kmeans_words)] = 2
    /\ word_bureau[1] = "equifax"
    /\ word_bureau[Len(kmeans_words)] = "transunion"


\* the mean x0 of the cluster with index c
ClusterMean(c) ==
    SumX0(kmeans_words, kmeans.labels_, c, 1)
        \div Cardinality({i \in 1..Len(kmeans_words) : kmeans.labels_[i] = c})

\* the bureau that the rank of the word's cluster gives: the clusters in
\* ascending order of mean x0 are transunion, experian, equifax
BureauByRank(i) ==
    Bureaus[1 + Cardinality({ c \in 0..2 :
                  ClusterMean(c) < ClusterMean(kmeans.labels_[i]) })]

---------------------------------------------------------------------------
(* Claims about the finished payment-history grid (SpecHistory)            *)

\* the status tokens named by the specification
StatusVocabulary ==
    { <<"O","K">>, <<"3","0">>, <<"6","0">>, <<"9","0">>, <<"1","2","0">>, <<"1","5","0">>, <<"C","O">>,
      <<"C","O","L","L","E","C","T","I","O","N">>, NO_DATA }

\* the entry of bureau b is a grid, not the 'NONE REPORTED' sentinel
Populated(b) == DOMAIN account_data.payment_history[b].statuses = {"list"}

\* C21: in every populated payment-history grid every entry of statuses
\* is one of OK, 30, 60, 90, 120, 150, CO, COLLECTION, NO DATA, whatever
\* the lines of the account hold ('NODATA', or 'NO' and 'DATA' separated
\* by several spaces or a tab, included).
C21_StatusesInVocabulary ==
    pc = "done" =>
        \A b \in BureauSet :
            Populated(b) =>
                \A j \in 1..Len(account_data.payment_history[b].statuses.list) :
                    account_data.payment_history[b].statuses.list[j]
                        \in StatusVocabulary

\* the 'NONE REPORTED' marker is in the status stream of bureau b
Marked(b) ==
    /\ b \in DOMAIN temp_statuses
    /\ \E j \in 1..Len(temp_statuses[b]) : temp_statuses[b][j] = NONE_REPORTED

\* the scan reads a 'none reported' / 'no history' line while b is the
\* current bureau (the test of line 897 is reached and holds)
ReadsNoneReported(b) ==
    /\ pc = "scan"
    /\ current_bureau = b
    /\ ~ScannedLine.ends_history
    /\ ScannedLine.bureau = "None"
    /\ ScannedLine.none_reported

\* reading the line marks the bureau, and no later step removes the mark
C27_MarkStep ==
    \A b \in BureauSet :
        (ReadsNoneReported(b) \/ Marked(b)) => Marked(b)'

\* a marked bureau is finalized as the sentinel
C27_MarkedIsSentinel ==
    pc = "done" =>
        \A b \in BureauSet :
            Marked(b) =>
                account_data.payment_history[b] =
                    [months |-> <<>>, statuses |-> PyStr(NONE_REPORTED)]

\* C27: within one account, once a 'none reported' / 'no history' line
\* has been read while a bureau is current, that bureau's final
\* payment_history entry is the sentinel, whatever month or status tokens
\* were accumulated for the bureau before the line or after a later
\* reappearance of the bureau's name.
C27_SentinelPersists == [][C27_MarkStep]_vars /\ []C27_MarkedIsSentinel

\* a bureau was marked, its name came again with tokens after it, and it
\* was finalized as the sentinel
C27_Witness ==
    /\ pc = "done"
    /\ \E b \in BureauSet :
          /\ Marked(b)
          /\ Len(temp_statuses[b]) > 1
          /\ temp_months[b] # <<>>
          /\ account_data.payment_history[b].statuses = PyStr(NONE_REPORTED)

---------------------------------------------------------------------------
(* Claims about the sections of the text (SpecBodies)                      *)

\* the lines of a body, none for a body that was not found or is empty
LinesOf(section) == IF section = None THEN <<>> ELSE section.list

\* the line holding the anchor of the inquiries section, 0 if there is none
InquiriesAnchor ==
    IF \E j \in 1..Len(doc_lines) : DocInfo[doc_lines[j]].inquiries_header
    THEN FirstLine(doc_lines, 1, LAMBDA l : DocInfo[l].inquiries_header)
    ELSE FirstLine(doc_lines, 1, LAMBDA l : DocInfo[l].inquiries)

\* the line holding the anchor of the public-information section, 0 if none
PublicAnchor == FirstLine(doc_lines, 1, LAMBDA l : DocInfo[l].public_anchor)

\* the lines after the anchor up to the earliest line at which any marker
\* of the inquiries section matches, up to the last line if there is none
InquiriesBodyToEarliestMarker ==
    Body(doc_lines, InquiriesAnchor + 1,
         FirstLine(doc_lines, InquiriesAnchor + 1,
                   LAMBDA l : DocInfo[l].end_markers # {}))

\* the same for the terminators of the public-information section
PublicBodyToEarliestTerminator ==
    Body(doc_lines, PublicAnchor + 1,
         FirstLine(doc_lines, PublicAnchor + 1,
                   LAMBDA l : DocInfo[l].public_terminator))

\* C23: for a section whose anchor is found, the section body ends at the
\* earliest position after the anchor at which any one of the configured
\* terminator patterns matches, and at the end of the document if no
\* terminator pattern matches; for the inquiries section and for the
\* public-information section.
C23_BodyEndsAtEarliestTerminator ==
    dstep = "done" =>
        /\ InquiriesAnchor # 0 =>
               LinesOf(inquiries_section) = InquiriesBodyToEarliestMarker
        /\ PublicAnchor # 0 =>
               LinesOf(public_section) = PublicBodyToEarliestTerminator

---------------------------------------------------------------------------
(* Claims about the account listings (SpecListing)                         *)

\* line j (from 0) of the text is an end-of-listing marker: a page footer,
\* a URL, the header of a later major section or 'Creditor Contacts'
MarkerLine(j) == ListingInfo[doc_lines[j + 1]].end_of_listing

\* line j (from 0) is one of the creditor anchors found
AnchorLine(j) == \E k \in 1..Len(creditor_indices) : creditor_indices[k] = j

\* the first line after line start that is an anchor or a marker, the
\* number of lines if there is none
FirstStopAfter(start) ==
    IF \E j \in (start + 1)..(Len(doc_lines) - 1) : AnchorLine(j) \/ MarkerLine(j)
    THEN CHOOSE j \in (start + 1)..(Len(doc_lines) - 1) :
             /\ AnchorLine(j) \/ MarkerLine(j)
             /\ \A h \in (start + 1)..(j - 1) : ~(AnchorLine(h) \/ MarkerLine(h))
    ELSE Len(doc_lines)

SectionsReturned == dstep \in {"parse_sections", "done"}

\* C24: every account section produced by identify_account_sections
\* starts at its creditor-anchor line and closes at whichever comes first
\* after it, the next creditor-anchor line or an end-of-listing marker line
\* (page footer, URL, a later major section header, 'Creditor Contacts');
\* no section contains lines at or beyond such a marker.
C24_SectionClosesAtAnchorOrMarker ==
    SectionsReturned =>
        \A k \in 1..Len(account_sections) :
            /\ AnchorLine(account_sections[k].start_idx)
            /\ account_sections[k].end_idx =
                   FirstStopAfter(account_sections[k].start_idx)
            /\ \A j \in (account_sections[k].start_idx + 1)
                            ..(account_sections[k].end_idx - 1) : ~MarkerLine(j)

\* the accounts are those of some of the sections, in the order of the
\* sections: the creditor of each account starts with its section's first
\* line
AccountsInSectionOrder ==
    \E f \in [1..Len(credit_report.accounts) -> 1..Len(account_sections)] :
        /\ \A a, b \in DOMAIN f : a < b => f[a] < f[b]
        /\ \A a \in DOMAIN f :
               MatchesAt(Strip(Chars(account_sections[f[a]].lines[1])),
                         credit_report.accounts[a].creditor, 1)

\* C30: identify_account_sections returns exactly one section per
\* detected creditor-anchor line, in document order; the sections are
\* contiguous line ranges that do not overlap, each begins with its anchor
\* line, and the accounts list holds at most one account per section in
\* that same order.
C30_OneSectionPerAnchorInOrder ==
    SectionsReturned =>
        /\ Len(account_sections) = Len(creditor_indices)
        /\ \A k \in 1..Len(account_sections) :
               LET s == account_sections[k]
               IN  /\ s.start_idx = creditor_indices[k]
                   /\ s.start_idx < s.end_idx
                   /\ s.end_idx <= Len(doc_lines)
                   /\ s.lines = SubSeq(doc_lines, s.start_idx + 1, s.end_idx)
                   /\ ListingInfo[s.lines[1]].creditor
                   /\ k < Len(account_sections) =>
                          s.end_idx <= account_sections[k + 1].start_idx
        /\ Len(credit_report.accounts) <= Len(account_sections)
        /\ AccountsInSectionOrder

\* three sections of two different creditors were returned, the first
\* ends where the second starts, and each gave its account
C30_Witness ==
    /\ dstep = "done"
    /\ Len(account_sections) = 3
    /\ account_sections[1].end_idx = account_sections[2].start_idx
    /\ account_sections[1].lines[1] # account_sections[2].lines[1]
    /\ Len(credit_report.accounts) = 3
    /\ credit_report.accounts[1].creditor # credit_report.accounts[2].creditor

---------------------------------------------------------------------------
(* Properties of the personal block and of the inquiry counts             *)

\* extract_personal_info has run on the page
PersonalInfoRead == rstep # "extract_personal_info"

\* every bureau holds the year of the 'Date of Birth' line
BirthYearStored ==
    \A b \in BureauSet :
        /\ "year_of_birth" \in DOMAIN credit_report.personal_info[b]
        /\ credit_report.personal_info[b].year_of_birth = <<"1","9","8","0">>

\* C28: whenever some line of the document matches 'Date of Birth' followed
\* by a 4-digit year, year_of_birth is set to that year for all three
\* bureaus, whether or not the name window was located on the page.
C28_BirthYearWhateverTheNameWindow ==
    (PersonalInfoRead /\ "dob" \in report_doc.info) => BirthYearStored

\* the previous-address window was found and holds fewer than 9 words
ShortAddressWindow ==
    /\ ~PreviousAddressRaises(page_words)
    /\ Len(addr_words(page_words)) < 9

\* the employer window is on the page and holds 9 words or more
FullEmployerWindow ==
    /\ EmployerLocated(page_words)
    /\ Len(emp_words(page_words)) >= 9

\* every bureau holds an employer value
EmployerStored ==
    \A b \in BureauSet : "employer" \in DOMAIN credit_report.personal_info[b]

\* C29: employer extraction is attempted independently of the
\* previous-address block: when the previous-address window holds fewer
\* than 9 words, the employer window is still located and, if it holds at
\* least 9 words, an employer value is stored for every bureau.
C29_EmployerWhateverTheAddressWindow ==
    (PersonalInfoRead /\ ShortAddressWindow /\ FullEmployerWindow)
        => EmployerStored

\* extract_summary found an inquiry count in the text
SummaryFoundCount ==
    \E b \in BureauSet :
        "inquiries_2y" \in DOMAIN extract_summary(EmptySummary, SummaryText)[b]

\* the entries of the inquiries list whose bureau is b
InquiriesOf(b) ==
    { j \in 1..Len(credit_report.inquiries) : credit_report.inquiries[j].bureau = b }

\* C26: after parse_credit_report completes, inquiries_2y is present in the
\* summary of all three bureaus; when summary extraction found no inquiry
\* count in the text, each bureau's inquiries_2y is the decimal string of
\* the number of entries of the inquiries list with that bureau, so the
\* three values sum to the length of the list.
C26_InquiryCountsAfterParse ==
    rstep = "done" =>
        /\ \A b \in BureauSet : "inquiries_2y" \in DOMAIN credit_report.summary[b]
        /\ ~SummaryFoundCount =>
               /\ \A b \in BureauSet :
                      credit_report.summary[b].inquiries_2y
                          = ToStr(Cardinality(InquiriesOf(b)))
               /\ ToInt(credit_report.summary.transunion.inquiries_2y)
                      + ToInt(credit_report.summary.experian.inquiries_2y)
                      + ToInt(credit_report.summary.equifax.inquiries_2y)
                  = Len(credit_report.inquiries)

\* the counts were taken from a list of three inquiries of two bureaus
C26_Witness ==
    /\ rstep = "done"
    /\ ~SummaryFoundCount
    /\ Len(credit_report.inquiries) = 3
    /\ Cardinality(InquiriesOf("experian")) = 2
    /\ Cardinality(InquiriesOf("equifax")) = 1
    /\ credit_report.summary.experian.inquiries_2y = <<"2">>
    /\ credit_report.summary.transunion.inquiries_2y = <<"0">>

\* a step that calls extract_text or extract_words on a page of the
\* document pdfplumber opened
CallsOnPdfplumberPage ==
    \/ ExtractPdfplumberPage
    \/ ExtractWordsOfPage /\ page = "first_page"

\* every call on a page is made while the handle of its document is open
C25_CallStep ==
    /\ CallsOnPdfplumberPage => handle.pdfplumber = "open"
    /\ ExtractPyPDF2Page => handle.file = "open"

\* extract_lines_from_pdf has returned
ExtractionCompleted ==
    step \in {"extracted", "returned", "extract_personal_info",
              "words_extracted", "raised"}

\* no handle is open once the extraction has completed
C25_ReleasedAfterExtraction ==
    ExtractionCompleted =>
        handle.pdfplumber # "open" /\ handle.file # "open"

\* C25: the document handle is open whenever text extraction or word
\* extraction is performed on the document, and it is released once
\* extraction completes, on success and on failure: no extract_text or
\* extract_words call on the document's pages happens after the handle has
\* been released.
C25_ExtractionOnlyWhileOpen ==
    [][C25_CallStep]_vars /\ []C25_ReleasedAfterExtraction
====
